---- MODULE Spec2Model ----
(***************************************************************************)
(* A model of batanalysis.bat_skyimage.BatSkyImage: the constructor, the   *)
(* helper _set_histogram, from_file, healpix_projection and project.       *)
(*                                                                         *)
(* Numbers are integers.  A numpy array is a record [shape, data] whose    *)
(* data is a function on index tuples (1-based here, 0-based in Python).   *)
(* An astropy Quantity holding bin bounds is a record [nd, v]: nd = -1 is  *)
(* Python's None, nd = 0 a scalar (v has one element), nd = 1 a 1-D array, *)
(* nd = 2 a 2-D array held as a sequence of rows.                          *)
(***************************************************************************)
EXTENDS Integers, Sequences, FiniteSets, TLC

VARIABLES img, ret, warns, call, root, view, assigned, parse, event

vars == <<img, ret, warns, call, root, view, assigned, parse, event>>

\* the state of the BatSkyImage operations, and the rest
imageVars == <<img, ret, warns, call, root>>
otherVars == <<view, assigned, parse, event>>

(***************************************************************************)
(* Bounds of the model.                                                    *)
(***************************************************************************)
\* pixel values of the images handed to the constructor are 0..MaxVal
MaxVal == 2
\* the data-carrying images have 1..MaxEnergyBins energy bins
MaxEnergyBins == 2
\* project keeps 1..MaxKeep axes
MaxKeep == 2
\* the most time bins of an input
MaxTimeBins == 2
\* the most HDUs of a file
MaxHDUs == 2

(***************************************************************************)
(* Program constants.                                                      *)
(***************************************************************************)
_file_extension_names == <<"image", "pcode", "signif", "varmap">>
_accepted_image_types == <<"flux", "pcode", "snr", "stddev", "exposure">>

Range(s) == {s[i] : i \in DOMAIN s}

\* F applied to the value of x, x being evaluated once
Let(x, F(_)) == CHOOSE r \in {F(v) : v \in {x}} : TRUE

Max(a, b) == IF a >= b THEN a ELSE b

(***************************************************************************)
(* Quantities (bin bounds).                                                *)
(***************************************************************************)
None == [nd |-> -1, v |-> <<>>]
Scalar(x) == [nd |-> 0, v |-> <<x>>]
Arr(s) == [nd |-> 1, v |-> s]
Arr2(rows) == [nd |-> 2, v |-> rows]

IsNone(q) == q.nd = -1

\* numpy's .size
RECURSIVE SumLen(_)
SumLen(rows) == IF rows = <<>> THEN 0 ELSE Len(Head(rows)) + SumLen(Tail(rows))

Size(q) == IF q.nd = 2 THEN SumLen(q.v) ELSE Len(q.v)

\* q[:-1] and q[1:] along the first axis (q is 1-D or 2-D)
DropLast(q) == [q EXCEPT !.v = IF Len(q.v) = 0 THEN <<>> ELSE SubSeq(q.v, 1, Len(q.v) - 1)]
DropFirst(q) == [q EXCEPT !.v = IF Len(q.v) = 0 THEN <<>> ELSE Tail(q.v)]

\* all values of q, flattened in C order
RECURSIVE Concat(_)
Concat(rows) == IF rows = <<>> THEN <<>> ELSE Head(rows) \o Concat(Tail(rows))

Flat(q) == IF q.nd = 2 THEN Concat(q.v) ELSE q.v

(***************************************************************************)
(* Sorting and searching, as numpy does them.                              *)
(***************************************************************************)
\* np.unique(np.sort(x)): the ascending sequence of the distinct values
RECURSIVE SortedSeq(_)
SortedSeq(S) ==
    IF S = {} THEN <<>>
    ELSE LET m == CHOOSE x \in S : \A y \in S : x <= y
         IN  <<m>> \o SortedSeq(S \ {m})

\* np.sort(s) alone: the values in ascending order, each as often as in s
UniqueSort_KeepsDuplicates(s) ==
    [i \in 1..Len(s) |->
        CHOOSE v \in Range(s) :
            /\ Cardinality({j \in DOMAIN s : s[j] < v}) < i
            /\ i <= Cardinality({j \in DOMAIN s : s[j] <= v})]

\* np.unique(np.sort(s))
UniqueSort(s) == SortedSeq(Range(s))

\* np.searchsorted(a, x) with side="left": how many elements of a are below x
SearchSorted(a, x) == Cardinality({i \in DOMAIN a : a[i] < x})

StrictlyIncreasing(s) == \A i \in 1..(Len(s) - 1) : s[i] < s[i + 1]

(***************************************************************************)
(* Arrays.                                                                 *)
(***************************************************************************)
Indices(shape) ==
    CASE Len(shape) = 0 -> {<<>>}
      [] Len(shape) = 1 -> {<<a>> : a \in 1..shape[1]}
      [] Len(shape) = 2 -> {<<a, b>> : a \in 1..shape[1], b \in 1..shape[2]}
      [] Len(shape) = 3 ->
            {<<a, b, c>> : a \in 1..shape[1], b \in 1..shape[2], c \in 1..shape[3]}
      [] OTHER ->
            {<<a, b, c, d>> : a \in 1..shape[1], b \in 1..shape[2],
                              c \in 1..shape[3], d \in 1..shape[4]}

\* Not-a-number, which reproject_to_healpix gives outside the footprint
NaN == -1

Add(a, b) == IF a = NaN \/ b = NaN THEN NaN ELSE a + b
Mul(a, b) == IF a = NaN \/ b = NaN THEN NaN ELSE a * b

RECURSIVE SumOver(_, _)
SumOver(f, S) ==
    IF S = {} THEN 0
    ELSE LET i == CHOOSE x \in S : TRUE
         IN  Add(f[i], SumOver(f, S \ {i}))

\* np.sqrt of a non-negative integer: exact when it is a perfect square,
\* otherwise the surd itself.  A real number is [i, r]: the integer i when
\* r = 0, the square root of r otherwise.
Whole(k) == [i |-> k, r |-> 0]
Sqrt(n) ==
    IF n = NaN THEN Whole(NaN)
    ELSE IF \E k \in 0..n : k * k = n
         THEN Whole(CHOOSE k \in 0..n : k * k = n)
         ELSE [i |-> 0, r |-> n]

(***************************************************************************)
(* Histogram axes, plain Histograms and BatSkyImage objects.               *)
(***************************************************************************)
\* an axis of a histpy Histogram; nside and coordsys are those of a
\* HealpixAxis and are 0 and "" on every other axis
Axis(label, edges) == [label |-> label, edges |-> edges, nside |-> 0, coordsys |-> ""]

Nbins(ax) == Len(ax.edges) - 1

\* np.arange(n + 1) - 0.5, in half pixels
PixelEdges(n) == [i \in 1..(n + 1) |-> 2 * (i - 1) - 1]

Labels(axes) == [i \in DOMAIN axes |-> axes[i].label]

\* the position of the axis labelled l
AxisIndex(axes, l) == CHOOSE i \in DOMAIN axes : axes[i].label = l

HasAxis(axes, l) == \E i \in DOMAIN axes : axes[i].label = l

ShapeOf(axes) == [i \in DOMAIN axes |-> Nbins(axes[i])]

NoArray == [shape |-> <<>>, data |-> <<>>]

\* the constructor's image_data argument: None, a numpy array (unit "" when
\* it is no Quantity) or a histpy Histogram (unit "" when it has none)
NoData == [kind |-> "none", shape |-> <<>>, data |-> <<>>, axes |-> <<>>, unit |-> ""]
ArrayData(shape, data, unit) ==
    [kind |-> "array", shape |-> shape, data |-> data, axes |-> <<>>, unit |-> unit]
Histogram(axes, data, unit) ==
    [kind |-> "hist", shape |-> ShapeOf(axes), data |-> data, axes |-> axes, unit |-> unit]

NoBins == [START |-> None, STOP |-> None, CENT2 |-> None]
NoEbins == [INDEX |-> <<>>, E_MIN |-> None, E_MAX |-> None]

NoImage ==
    [kind |-> "none", axes |-> <<>>, contents |-> NoArray, unit |-> "",
     gti |-> NoBins, exposure |-> None, tbins |-> NoBins, ebins |-> NoEbins,
     wcs |-> "None", is_mosaic_intermediate |-> FALSE, image_type |-> "None"]

\* astropy.wcs.WCS objects, and an object that is none
WCSObjects == {"WCS0", "WCS1"}

\* reconciled is the array of line 161 or 167 of the constructor, None when
\* the call did not reach these lines
Raise(exc, line, w) ==
    [ok |-> FALSE, exc |-> exc, line |-> line, obj |-> NoImage, warns |-> w,
     reconciled |-> None]

Return(obj, w) ==
    [ok |-> TRUE, exc |-> "", line |-> 0, obj |-> obj, warns |-> w,
     reconciled |-> None]

\* astropy's UnitsError is a subclass of ValueError
IsValueError(exc) == exc \in {"ValueError", "UnitsError"}

\* element-wise a + b and a - b of two quantities of one shape
QAdd(a, b) ==
    IF a.nd = 2
    THEN Arr2([i \in DOMAIN a.v |-> [j \in DOMAIN a.v[i] |-> a.v[i][j] + b.v[i][j]]])
    ELSE [nd |-> a.nd, v |-> [i \in DOMAIN a.v |-> a.v[i] + b.v[i]]]
QSub(a, b) ==
    IF a.nd = 2
    THEN Arr2([i \in DOMAIN a.v |-> [j \in DOMAIN a.v[i] |-> a.v[i][j] - b.v[i][j]]])
    ELSE [nd |-> a.nd, v |-> [i \in DOMAIN a.v |-> a.v[i] - b.v[i]]]

(***************************************************************************)
(* BatSkyImage.__init__, in the order of its statements.                   *)
(***************************************************************************)
\* lines 46-53: the decorator u.quantity_input runs before the body.  An
\* argument that is None passes; the first one given that has no unit
\* raises a TypeError, and one whose unit is neither a time nor an energy
\* raises a UnitsError.  a.quantities says what the time and energy
\* arguments given are: "ok", "no unit" or "wrong unit".
QuantityInput(a) ==
    IF \A q \in {a.timebins, a.tmin, a.tmax, a.energybins, a.emin, a.emax} : IsNone(q)
    THEN [exc |-> "", line |-> 0]
    ELSE IF a.quantities = "no unit" THEN [exc |-> "TypeError", line |-> 46]
    ELSE IF a.quantities = "wrong unit" THEN [exc |-> "UnitsError", line |-> 46]
    ELSE [exc |-> "", line |-> 0]

\* the checks without the one of image_type
ArgChecks_AnyImageType(a) ==
    IF a.image_data.kind = "none" THEN [exc |-> "ValueError", line |-> 87]
    ELSE IF a.wcs # "None" /\ a.wcs \notin WCSObjects
    THEN [exc |-> "ValueError", line |-> 105]
    ELSE IF (IsNone(a.tmin) /\ ~IsNone(a.tmax)) \/ (IsNone(a.tmax) /\ ~IsNone(a.tmin))
    THEN [exc |-> "ValueError", line |-> 110]
    ELSE IF ~IsNone(a.tmin) /\ ~IsNone(a.tmax) /\ Size(a.tmin) # Size(a.tmax)
    THEN [exc |-> "ValueError", line |-> 114]
    ELSE [exc |-> "", line |-> 0]

\* the checks without the one of the wcs
ArgChecks_AnyWcs(a) ==
    IF a.image_data.kind = "none" THEN [exc |-> "ValueError", line |-> 87]
    ELSE IF a.image_type # "None" /\ a.image_type \notin Range(_accepted_image_types)
    THEN [exc |-> "TypeError", line |-> 94]
    ELSE IF (IsNone(a.tmin) /\ ~IsNone(a.tmax)) \/ (IsNone(a.tmax) /\ ~IsNone(a.tmin))
    THEN [exc |-> "ValueError", line |-> 110]
    ELSE IF ~IsNone(a.tmin) /\ ~IsNone(a.tmax) /\ Size(a.tmin) # Size(a.tmax)
    THEN [exc |-> "ValueError", line |-> 114]
    ELSE [exc |-> "", line |-> 0]

\* the checks with the one of the wcs made first
ArgChecks_WcsFirst(a) ==
    IF a.wcs # "None" /\ a.wcs \notin WCSObjects
    THEN [exc |-> "ValueError", line |-> 105]
    ELSE IF a.image_data.kind = "none" THEN [exc |-> "ValueError", line |-> 87]
    ELSE IF a.image_type # "None" /\ a.image_type \notin Range(_accepted_image_types)
    THEN [exc |-> "TypeError", line |-> 94]
    ELSE IF (IsNone(a.tmin) /\ ~IsNone(a.tmax)) \/ (IsNone(a.tmax) /\ ~IsNone(a.tmin))
    THEN [exc |-> "ValueError", line |-> 110]
    ELSE IF ~IsNone(a.tmin) /\ ~IsNone(a.tmax) /\ Size(a.tmin) # Size(a.tmax)
    THEN [exc |-> "ValueError", line |-> 114]
    ELSE [exc |-> "", line |-> 0]

\* the checks without the one that tmin and tmax come together
ArgChecks_NoPairing(a) ==
    IF a.image_data.kind = "none" THEN [exc |-> "ValueError", line |-> 87]
    ELSE IF a.image_type # "None" /\ a.image_type \notin Range(_accepted_image_types)
    THEN [exc |-> "TypeError", line |-> 94]
    ELSE IF a.wcs # "None" /\ a.wcs \notin WCSObjects
    THEN [exc |-> "ValueError", line |-> 105]
    ELSE IF ~IsNone(a.tmin) /\ ~IsNone(a.tmax) /\ Size(a.tmin) # Size(a.tmax)
    THEN [exc |-> "ValueError", line |-> 114]
    ELSE [exc |-> "", line |-> 0]

\* lines 86-114: the checks made before any binning is derived.  The result
\* is the exception raised, or "" when every check passes.
ArgChecks(a) ==
    IF a.image_data.kind = "none" THEN [exc |-> "ValueError", line |-> 87]
    ELSE IF a.image_type # "None" /\ a.image_type \notin Range(_accepted_image_types)
    THEN [exc |-> "TypeError", line |-> 94]
    ELSE IF a.wcs # "None" /\ a.wcs \notin WCSObjects
    THEN [exc |-> "ValueError", line |-> 105]
    ELSE IF (IsNone(a.tmin) /\ ~IsNone(a.tmax)) \/ (IsNone(a.tmax) /\ ~IsNone(a.tmin))
    THEN [exc |-> "ValueError", line |-> 110]
    ELSE IF ~IsNone(a.tmin) /\ ~IsNone(a.tmax) /\ Size(a.tmin) # Size(a.tmax)
    THEN [exc |-> "ValueError", line |-> 114]
    ELSE [exc |-> "", line |-> 0]

\* lines 97-102: the warning of a missing wcs is emitted once the image
\* data and the image type have passed
WcsWarning(a) == IF a.wcs = "None" THEN <<"no wcs">> ELSE <<>>

WarningsAt(a, line) == IF line > 94 THEN WcsWarning(a) ELSE <<>>

\* u.Quantity([tmin, tmax]): two scalars give a 1-D array of two values,
\* two arrays of one length n give a 2-D array of shape (2, n); a None among
\* the two is no quantity (TypeError)
StackMinMax(lo, hi) ==
    IF lo.nd = 0 /\ hi.nd = 0 THEN Arr(<<lo.v[1], hi.v[1]>>)
    ELSE Arr2(<<lo.v, hi.v>>)

\* the time bin edges without the check that they are two
TimebinEdges_NoLengthCheck(a) ==
    LET noTimes == IsNone(a.timebins) /\ IsNone(a.tmin) /\ IsNone(a.tmax)
        edges ==
            IF noTimes THEN Arr(a.image_data.axes[AxisIndex(a.image_data.axes, "TIME")].edges)
            ELSE IF ~IsNone(a.timebins) THEN a.timebins
            ELSE StackMinMax(a.tmin, a.tmax)
    IN  IF noTimes /\ a.image_data.kind # "hist"
        THEN [exc |-> "ValueError", line |-> 123, edges |-> None]
        ELSE IF ~noTimes /\ IsNone(a.timebins) /\ (IsNone(a.tmin) \/ IsNone(a.tmax))
        THEN [exc |-> "TypeError", line |-> 132, edges |-> None]
        ELSE [exc |-> "", line |-> 0, edges |-> edges]

\* lines 120-138: the time bin edges and the check that they are two
TimebinEdges(a) ==
    LET noTimes == IsNone(a.timebins) /\ IsNone(a.tmin) /\ IsNone(a.tmax)
        edges ==
            IF noTimes THEN Arr(a.image_data.axes[AxisIndex(a.image_data.axes, "TIME")].edges)
            ELSE IF ~IsNone(a.timebins) THEN a.timebins
            ELSE StackMinMax(a.tmin, a.tmax)
    IN  IF noTimes /\ a.image_data.kind # "hist"
        THEN [exc |-> "ValueError", line |-> 123, edges |-> None]
        ELSE IF ~noTimes /\ IsNone(a.timebins) /\ (IsNone(a.tmin) \/ IsNone(a.tmax))
        THEN [exc |-> "TypeError", line |-> 132, edges |-> None]
        ELSE IF Len(edges.v) # 2
        THEN [exc |-> "ValueError", line |-> 136, edges |-> None]
        ELSE [exc |-> "", line |-> 0, edges |-> edges]

\* The builds the code runs on differ in one place: comparing two arrays
\* whose shapes do not broadcast raises a ValueError from numpy 1.25 on and
\* gave False (with a DeprecationWarning) before.
Builds == {"numpy<1.25", "numpy>=1.25"}

\* emin[1:] == emax[:-1] on 1-D arrays: "mismatch" when the shapes do not
\* broadcast, else np.all of the element-wise comparison
ContiguousTest(emin, emax) ==
    LET x == DropFirst(emin).v
        y == DropLast(emax).v
    IN  IF Len(x) = Len(y) THEN
            IF \A i \in DOMAIN x : x[i] = y[i] THEN "all" ELSE "notall"
        ELSE IF Len(x) = 1 THEN
            IF \A i \in DOMAIN y : x[1] = y[i] THEN "all" ELSE "notall"
        ELSE IF Len(y) = 1 THEN
            IF \A i \in DOMAIN x : x[i] = y[1] THEN "all" ELSE "notall"
        ELSE "mismatch"

\* whether numpy lets an array of shape src be assigned to a selection of
\* shape dst: extra leading axes of src must have length 1, and every other
\* axis of src has length 1 or the length of the axis of dst it lines up with
CanBroadcast(src, dst) ==
    LET extra == Len(src) - Len(dst)
    IN  /\ \A i \in DOMAIN src : i <= extra => src[i] = 1
        /\ \A i \in DOMAIN src :
               i > extra => (src[i] = 1 \/ src[i] = dst[i - extra])

\* the index of src that the index t of the selection of shape dst reads
BroadcastIndex(src, dst, t) ==
    LET extra == Len(src) - Len(dst)
    IN  [i \in DOMAIN src |->
            IF i <= extra \/ src[i] = 1 THEN 1 ELSE t[i - extra]]

\* lines 166-183: the enlarged zero-filled array of the general path.
\* new_hist[idx, :] indexes the FIRST axis of new_hist with idx.
Redistribute(parse_data, emin, final) ==
    LET idx == [k \in DOMAIN emin.v |-> SearchSorted(DropLast(Arr(final)).v, emin.v[k])]
        shape == parse_data.shape
        newshape == SubSeq(shape, 1, Len(shape) - 1) \o <<Len(final) - 1>>
        sel == <<Len(idx)>> \o Tail(newshape)
        new_hist ==
            [t \in Indices(newshape) |->
                LET K == {k \in DOMAIN idx : idx[k] + 1 = t[1]}
                IN  IF K = {} THEN 0
                    ELSE LET k == CHOOSE x \in K : \A y \in K : y <= x
                         IN  parse_data.data[
                                 BroadcastIndex(shape, sel, <<k>> \o Tail(t))]]
    IN  IF \E k \in DOMAIN idx : idx[k] >= newshape[1]
        THEN [exc |-> "IndexError", line |-> 179, data |-> NoData]
        ELSE IF ~CanBroadcast(shape, sel)
        THEN [exc |-> "ValueError", line |-> 179, data |-> NoData]
        ELSE [exc |-> "", line |-> 0, data |-> ArrayData(newshape, new_hist, "")]

\* lines 141-183: the energy bin edges; emin and emax as they are after
\* line 155; parse_data as it is after line 181
EnergyBins(a, build) ==
    LET noEnergies == IsNone(a.energybins) /\ IsNone(a.emin) /\ IsNone(a.emax)
        keep(edges) ==
            [exc |-> "", line |-> 0, edges |-> edges, emin |-> a.emin,
             emax |-> a.emax, parse_data |-> a.image_data, reconciled |-> None]
        fail(exc, line) ==
            [exc |-> exc, line |-> line, edges |-> None, emin |-> a.emin,
             emax |-> a.emax, parse_data |-> a.image_data, reconciled |-> None]
    IN  IF noEnergies THEN
            IF a.image_data.kind # "hist" THEN fail("ValueError", 144)
            ELSE keep(Arr(a.image_data.axes[AxisIndex(a.image_data.axes, "ENERGY")].edges))
        ELSE IF ~IsNone(a.energybins) THEN keep(a.energybins)
        ELSE IF IsNone(a.emin) THEN fail("AttributeError", 153)
        ELSE IF a.emin.nd = 0 /\ IsNone(a.emax) THEN fail("TypeError", 155)
        ELSE IF IsNone(a.emax) THEN fail("TypeError", 158)
        ELSE
            LET emin == IF a.emin.nd = 0 THEN Arr(a.emin.v) ELSE a.emin
                emax == IF a.emin.nd = 0 THEN Arr(a.emax.v) ELSE a.emax
                test == ContiguousTest(emin, emax)
                final == UniqueSort(emin.v \o emax.v)
                moved == Redistribute(a.image_data, emin, final)
            IN  IF test = "mismatch" /\ build = "numpy>=1.25"
                THEN fail("ValueError", 158)
                ELSE IF test = "all"
                THEN [exc |-> "", line |-> 0, edges |-> Arr(final), emin |-> emin,
                      emax |-> emax, parse_data |-> a.image_data,
                      reconciled |-> Arr(final)]
                ELSE IF moved.exc # ""
                THEN [fail(moved.exc, moved.line) EXCEPT !.reconciled = Arr(final)]
                ELSE [exc |-> "", line |-> 0, edges |-> Arr(final), emin |-> emin,
                      emax |-> emax, parse_data |-> moved.data,
                      reconciled |-> Arr(final)]

\* lines 187-213: gti, exposure, tbins and ebins; tmin + None is a TypeError
Bookkeeping(a, timebin_edges, e) ==
    LET start == IF ~IsNone(a.tmin) THEN a.tmin ELSE DropLast(timebin_edges)
        stop == IF ~IsNone(a.tmin) THEN a.tmax ELSE DropFirst(timebin_edges)
        tstart == DropLast(timebin_edges)
        tstop == DropFirst(timebin_edges)
    IN  IF IsNone(stop)
        THEN [exc |-> "TypeError", line |-> 194, gti |-> NoBins, exposure |-> None,
              tbins |-> NoBins, ebins |-> NoEbins]
        ELSE
        [exc |-> "", line |-> 0,
         gti |-> [START |-> start, STOP |-> stop, CENT2 |-> QAdd(start, stop)],
         exposure |-> QSub(stop, start),
         tbins |-> [START |-> tstart, STOP |-> tstop, CENT2 |-> QAdd(tstart, tstop)],
         ebins |->
            IF ~IsNone(e.emin)
            THEN [INDEX |-> [i \in 1..Size(e.emin) |-> i],
                  E_MIN |-> e.emin, E_MAX |-> e.emax]
            ELSE [INDEX |-> [i \in 1..(Size(e.edges) - 1) |-> i],
                  E_MIN |-> DropLast(e.edges), E_MAX |-> DropFirst(e.edges)]]

\* x[-1] of the quantity x, as the value stored into one element of a 1-D
\* array: a scalar cannot be indexed, an empty array has no last element,
\* and a last row of more (or fewer) than one value does not fit
LastInto(x) ==
    IF IsNone(x) \/ x.nd = 0 THEN [exc |-> "TypeError", val |-> 0]
    ELSE IF Len(x.v) = 0 THEN [exc |-> "IndexError", val |-> 0]
    ELSE IF x.nd = 1 THEN [exc |-> "", val |-> x.v[Len(x.v)]]
    ELSE IF Len(x.v[Len(x.v)]) = 1 THEN [exc |-> "", val |-> x.v[Len(x.v)][1]]
    ELSE [exc |-> "ValueError", val |-> 0]

\* an Axis that takes any edges
AxisOk_Any(edges) == Len(edges) >= 0

\* histpy refuses an axis with fewer than two edges or with edges that do
\* not strictly increase
AxisOk(edges) == Len(edges) >= 2 /\ StrictlyIncreasing(edges)

\* lines 222-308: _set_histogram(histogram_data=parse_data)
set_histogram(tbins, ebins, histogram_data) ==
    LET tlast == LastInto(tbins.STOP)
        elast == LastInto(ebins.E_MAX)
        timebin_edges == Flat(tbins.START) \o <<tlast.val>>
        energybin_edges == Flat(ebins.E_MIN) \o <<elast.val>>
        hist_unit ==
            IF histogram_data.kind = "hist" \/ histogram_data.unit # ""
            THEN histogram_data.unit ELSE "ct"
        shape == histogram_data.shape
        fail(exc, line) ==
            [exc |-> exc, line |-> line, axes |-> <<>>, contents |-> NoArray, unit |-> ""]
    IN  IF tlast.exc # "" THEN fail(tlast.exc, 244)
        ELSE IF elast.exc # "" THEN fail(elast.exc, 251)
        ELSE IF histogram_data.kind # "hist" THEN
            IF Len(shape) # 4 THEN fail("ValueError", 262)
            ELSE IF shape # <<Size(tbins.START), shape[2], shape[3], Size(ebins.E_MIN)>>
            THEN fail("ValueError", 273)
            ELSE IF ~(AxisOk(timebin_edges) /\ AxisOk(energybin_edges))
            THEN fail("ValueError", 275)
            ELSE [exc |-> "", line |-> 0,
                  axes |-> <<Axis("TIME", timebin_edges),
                             Axis("IMY", PixelEdges(shape[2])),
                             Axis("IMX", PixelEdges(shape[3])),
                             Axis("ENERGY", energybin_edges)>>,
                  contents |-> [shape |-> shape, data |-> histogram_data.data],
                  unit |-> hist_unit]
        ELSE [exc |-> "", line |-> 0,
              axes |-> histogram_data.axes,
              contents |-> [shape |-> shape, data |-> histogram_data.data],
              unit |-> hist_unit]

\* lines 215-220: the object once _set_histogram has returned
Assemble(a, b, h) ==
    [kind |-> "BatSkyImage", axes |-> h.axes, contents |-> h.contents,
     unit |-> h.unit, gti |-> b.gti, exposure |-> b.exposure,
     tbins |-> b.tbins, ebins |-> b.ebins, wcs |-> a.wcs,
     is_mosaic_intermediate |-> a.is_mosaic_intermediate,
     image_type |-> a.image_type]

\* the constructor: the outcome of BatSkyImage(**args) on the given build
BatSkyImage(args, build) ==
    Let(args, LAMBDA a :
    Let(QuantityInput(a), LAMBDA q :
        IF q.exc # "" THEN Raise(q.exc, q.line, <<>>) ELSE
    Let(ArgChecks(a), LAMBDA chk :
        IF chk.exc # "" THEN Raise(chk.exc, chk.line, WarningsAt(a, chk.line)) ELSE
    Let(TimebinEdges(a), LAMBDA t :
        IF t.exc # "" THEN Raise(t.exc, t.line, WcsWarning(a)) ELSE
    Let(EnergyBins(a, build), LAMBDA e :
        IF e.exc # ""
        THEN [Raise(e.exc, e.line, WcsWarning(a)) EXCEPT !.reconciled = e.reconciled]
        ELSE
    Let(Bookkeeping(a, t.edges, e), LAMBDA b :
        IF b.exc # ""
        THEN [Raise(b.exc, b.line, WcsWarning(a)) EXCEPT !.reconciled = e.reconciled]
        ELSE
    Let(set_histogram(b.tbins, b.ebins, e.parse_data), LAMBDA h :
        IF h.exc # ""
        THEN [Raise(h.exc, h.line, WcsWarning(a)) EXCEPT !.reconciled = e.reconciled]
        ELSE [Return(Assemble(a, b, h), WcsWarning(a))
                 EXCEPT !.reconciled = e.reconciled])))))))

(***************************************************************************)
(* histpy's Histogram.project and Histogram.slice, which project calls.    *)
(***************************************************************************)
\* Histogram.project(*axis): the axes named in axis are kept, in that order,
\* and the contents are summed over every other axis
HistProject(axes, contents, axis) ==
    LET pos == [k \in DOMAIN axis |-> AxisIndex(axes, axis[k])]
        newaxes == [k \in DOMAIN axis |-> axes[pos[k]]]
        newshape == ShapeOf(newaxes)
        all == Indices(contents.shape)
    IN  [axes |-> newaxes,
         contents |->
            [shape |-> newshape,
             data |-> [j \in Indices(newshape) |->
                         SumOver(contents.data,
                                 {t \in all : \A k \in DOMAIN pos : t[pos[k]] = j[k]})]]]

\* self.slice[:, ..., self.end - 1] with the index self.end - 1 in position
\* n: the last bin of axis n, the axis kept with that single bin
SliceLast(axes, contents, n) ==
    LET last == axes[n]
        nb == Nbins(last)
        newaxes == [axes EXCEPT ![n] =
                       [last EXCEPT !.edges = SubSeq(last.edges, nb, nb + 1)]]
        newshape == ShapeOf(newaxes)
    IN  [axes |-> newaxes,
         contents |->
            [shape |-> newshape,
             data |-> [t \in Indices(newshape) |->
                         contents.data[[t EXCEPT ![n] = nb]]]]]

\* (self * self).contents.value
Squared(contents) ==
    [shape |-> contents.shape,
     data |-> [t \in Indices(contents.shape) |-> Mul(contents.data[t], contents.data[t])]]

NoHist == [axes |-> <<>>, contents |-> NoArray, unit |-> ""]

\* a Histogram returned by project: its contents are real numbers
Lifted(hist, unit, f(_)) ==
    Let(hist, LAMBDA h :
        [axes |-> h.axes,
         contents |-> [shape |-> h.contents.shape,
                       data |-> [t \in Indices(h.contents.shape) |-> f(h.contents.data[t])]],
         unit |-> unit])

EnergyNbins(self) == Nbins(self.axes[AxisIndex(self.axes, "ENERGY")])

\* lines 653: ENERGY is collapsed and there is more than one energy bin
CollapsesEnergy(self, axis) == "ENERGY" \notin Range(axis) /\ EnergyNbins(self) > 1

Done(branch, hist, w) ==
    [ok |-> TRUE, exc |-> "", branch |-> branch, hist |-> hist, warns |-> w]

\* a quadrature rule that adds the values as they are
QuadratureCollapse_Linear(self, axis) ==
    Done("quadrature",
         Lifted(HistProject(self.axes, self.contents, axis), self.unit, Whole),
         <<>>)

\* lines 657-658: the squares are summed and the root is taken
QuadratureCollapse(self, axis) ==
    Done("quadrature",
         Lifted(HistProject(self.axes, Squared(self.contents), axis), self.unit, Sqrt),
         <<>>)

\* a slice rule that sums every energy slice
LastSliceCollapse_AllSlices(self, axis) ==
    Done("lastslice",
         Lifted(HistProject(self.axes, self.contents, axis), self.unit, Whole),
         <<>>)

\* lines 662-667: the last energy slice alone is collapsed
LastSliceCollapse(self, axis) ==
    Let(IF HasAxis(self.axes, "HPX")
        THEN SliceLast(self.axes, self.contents, 3)
        ELSE SliceLast(self.axes, self.contents, 4),
        LAMBDA sl :
            Done("lastslice",
                 Lifted(HistProject(sl.axes, sl.contents, axis), self.unit, Whole),
                 <<>>))

\* a sum rule that adds in quadrature
SumCollapse_Quadrature(self, axis) ==
    Done("sum",
         Lifted(HistProject(self.axes, Squared(self.contents), axis), self.unit, Sqrt),
         <<>>)

\* line 669: Histogram.project
SumCollapse(self, axis) ==
    Done("sum",
         Lifted(HistProject(self.axes, self.contents, axis), self.unit, Whole),
         <<>>)

\* a default rule that never warns
DefaultCollapse_Silent(self, axis) ==
    Done("default",
         Lifted(HistProject(self.axes, self.contents, axis), self.unit, Whole),
         <<>>)

\* lines 676-682: Histogram.project, after the warning of an image without
\* image_type that is summed over ENERGY
DefaultCollapse(self, axis) ==
    Done("default",
         Lifted(HistProject(self.axes, self.contents, axis), self.unit, Whole),
         IF self.image_type = "None" /\ CollapsesEnergy(self, axis)
         THEN <<"no image_type">> ELSE <<>>)

\* a test that forgets whether ENERGY is collapsed
TypeRuleApplies_Always(self, axis) == self.image_type # "None"

\* line 653: the test that sends a call to the type-dependent rules
TypeRuleApplies(self, axis) ==
    CollapsesEnergy(self, axis) /\ self.image_type # "None"

\* line 668 for mosaic intermediates only
SumsDirectly_MosaicOnly(self) == self.is_mosaic_intermediate

\* line 668: the images whose energy bins are summed as they are
SumsDirectly(self) == self.is_mosaic_intermediate \/ self.image_type = "flux"

\* lines 636-684: BatSkyImage.project(*axis).  branch names the statement
\* that computed the result.
project(self, axis) ==
    IF TypeRuleApplies(self, axis) THEN
        IF ~self.is_mosaic_intermediate /\ self.image_type \in {"snr", "stddev"}
        THEN QuadratureCollapse(self, axis)
        ELSE IF self.image_type \in {"pcode", "exposure"}
        THEN LastSliceCollapse(self, axis)
        ELSE IF SumsDirectly(self)
        THEN SumCollapse(self, axis)
        ELSE [ok |-> FALSE, exc |-> "ValueError", branch |-> "error",
              hist |-> NoHist, warns |-> <<>>]
    ELSE DefaultCollapse(self, axis)

(***************************************************************************)
(* healpix_projection.                                                     *)
(***************************************************************************)
\* HealpixAxis(nside=nside, coordsys=coordsys, label="HPX"): 12 nside^2 bins
HealpixAxis(nside, coordsys) ==
    [label |-> "HPX", edges |-> [i \in 1..(12 * nside * nside + 1) |-> i - 1],
     nside |-> nside, coordsys |-> coordsys]

\* reproject_to_healpix((image, wcs), coordsys, nside): the image pixel
\* (row-major, from 1) that the wcs puts under HEALPix pixel p, or 0 when p
\* lies outside the image.  Which pixel it is is fixed by the wcs, the frame
\* and the resolution; the model takes the nearest pixel and leaves out the
\* interpolation between neighbours.
Footprint(wcs, coordsys, nside, p, npix) ==
    LET shift == (IF wcs = "WCS0" THEN 0 ELSE 1) + (IF coordsys = "galactic" THEN 0 ELSE 2)
    IN  (p + shift) % (npix + 1)

\* lines 318-355: healpix_projection(coordsys, nside) on the given build.
\* Without a wcs reproject_to_healpix raises at line 330; the exception is
\* reproject's own and is written TypeError here.
healpix_projection(self, coordsys, nside, build) ==
    LET emptyArgs(data) ==
            [image_data |-> data, timebins |-> None, tmin |-> None, tmax |-> None,
             energybins |-> None, emin |-> None, emax |-> None, wcs |-> "None",
             is_mosaic_intermediate |-> FALSE, image_type |-> "None",
             quantities |-> "ok"]
    IN  IF ~HasAxis(self.axes, "HPX") THEN
            LET hp_ax == HealpixAxis(nside, coordsys)
                tax == self.axes[AxisIndex(self.axes, "TIME")]
                eax == self.axes[AxisIndex(self.axes, "ENERGY")]
                ny == self.contents.shape[2]
                nx == self.contents.shape[3]
                newshape == <<Nbins(tax), Nbins(hp_ax), Nbins(eax)>>
                new_array ==
                    [t \in Indices(newshape) |->
                        LET k == Footprint(self.wcs, coordsys, nside, t[2], ny * nx)
                        IN  IF k = 0 THEN NaN
                            ELSE self.contents.data[
                                    <<t[1], ((k - 1) \div nx) + 1, ((k - 1) % nx) + 1, t[3]>>]]
            IN  IF self.wcs = "None" /\ Nbins(tax) > 0 /\ Nbins(eax) > 0
                THEN Raise("TypeError", 330, <<>>)
                ELSE Let(Histogram(<<tax, hp_ax, eax>>, new_array, self.unit),
                         LAMBDA hist : BatSkyImage(emptyArgs(hist), build))
        ELSE
            LET hpx == self.axes[AxisIndex(self.axes, "HPX")]
            IN  IF hpx.nside # nside THEN Raise("ValueError", 346, <<>>)
                ELSE IF hpx.coordsys = "None" THEN Raise("AttributeError", 349, <<>>)
                ELSE IF hpx.coordsys # coordsys THEN Raise("ValueError", 350, <<>>)
                ELSE BatSkyImage(
                        emptyArgs(Histogram(self.axes, self.contents.data, self.unit)),
                        build)

(***************************************************************************)
(* from_file.  A FITS file is the sequence of its HDUs; an HDU is its      *)
(* header cards and its data: the pixels of an image, data[<<y, x>>], or   *)
(* the rows <<lower, upper>> of a table.                                   *)
(***************************************************************************)
\* a header without the EXTNAME card
NoExtname == ""

\* header["EXTNAME"].lower() on the extension names of the files
Lower(extname) ==
    CASE extname = "BAT_IMAGE_1" -> "bat_image_1"
      [] extname = "BAT_PCODE_1" -> "bat_pcode_1"
      [] extname = "BAT_SIGNIF_1" -> "bat_signif_1"
      [] extname = "BAT_VARMAP_1" -> "bat_varmap_1"
      [] extname = "BAT_EXPOSURE_1" -> "bat_exposure_1"
      [] extname = "PCODE_IMAGE" -> "pcode_image"
      [] extname = "EBOUNDS" -> "ebounds"
      [] extname = "STDGTI" -> "stdgti"
      [] extname = "PRIMARY" -> "primary"
      [] OTHER -> extname

\* name in lowered: the substrings of the lowered names among the words the
\* code looks for
Contains(name, lowered) ==
    CASE lowered = "bat_image_1" -> name = "image"
      [] lowered = "bat_pcode_1" -> name = "pcode"
      [] lowered = "bat_signif_1" -> name = "signif"
      [] lowered = "bat_varmap_1" -> name = "varmap"
      [] lowered = "bat_exposure_1" -> name = "exposure"
      [] lowered = "pcode_image" -> name \in {"pcode", "image"}
      [] lowered = "ebounds" -> name = "ebounds"
      [] lowered = "stdgti" -> name = "stdgti"
      [] OTHER -> FALSE

\* lines 533-542 and 591-600: what the loops take the HDU for
Classify(hdu) ==
    IF hdu.EXTNAME = NoExtname THEN "KeyError"
    ELSE IF \E i \in DOMAIN _file_extension_names :
                Contains(_file_extension_names[i], Lower(hdu.EXTNAME))
    THEN "image"
    ELSE IF Contains("ebounds", Lower(hdu.EXTNAME)) THEN "ebounds"
    ELSE IF Contains("stdgti", Lower(hdu.EXTNAME)) THEN "stdgti"
    ELSE "ValueError"

\* the indices of the HDUs of one kind, in file order
Positions(hdus, kind) == SortedSeq({i \in DOMAIN hdus : Classify(hdus[i]) = kind})

Last(s) == s[Len(s)]

\* lines 626-632 without the renaming of lines 627-632
ImType_Unmapped(header) ==
    _file_extension_names[
        CHOOSE i \in DOMAIN _file_extension_names :
            /\ Contains(_file_extension_names[i], Lower(header.EXTNAME))
            /\ \A j \in 1..(i - 1) :
                   ~Contains(_file_extension_names[j], Lower(header.EXTNAME))]

\* lines 626-632
ImType(header) ==
    LET first == CHOOSE i \in DOMAIN _file_extension_names :
                    /\ Contains(_file_extension_names[i], Lower(header.EXTNAME))
                    /\ \A j \in 1..(i - 1) :
                           ~Contains(_file_extension_names[j], Lower(header.EXTNAME))
        imtype == _file_extension_names[first]
    IN  IF imtype = "image" THEN "flux"
        ELSE IF imtype = "signif" THEN "snr"
        ELSE IF imtype = "varmap" THEN "stddev"
        ELSE imtype

\* lines 549-553
ImgUnit(hdus, imgs) ==
    IF \/ \A k \in DOMAIN imgs : Contains("pcode", Lower(hdus[imgs[k]].EXTNAME))
       \/ \A k \in DOMAIN imgs : Contains("signif", Lower(hdus[imgs[k]].EXTNAME))
    THEN "dimensionless"
    ELSE hdus[imgs[1]].BUNIT

\* np.squeeze of a table column: a column of one row becomes a scalar
Squeeze(col) == IF Len(col) = 1 THEN Scalar(col[1]) ELSE Arr(col)

\* column c of a table HDU
Column(hdu, c) == [k \in 1..hdu.NAXIS2 |-> hdu.data[<<k, c>>]]

\* lines 579-600: the array the second loop fills.  The image of the HDU at
\* index i of the file (from 0) is written into energy slice i.
FillImages(hdus, imgs, n_times, n_energies) ==
    LET first == hdus[imgs[1]]
        shape == <<n_times, first.NAXIS2, first.NAXIS1, n_energies>>
        dst == <<n_times, first.NAXIS2, first.NAXIS1>>
        err(i) ==
            IF i - 1 >= n_energies THEN "IndexError"
            ELSE IF ~CanBroadcast(<<hdus[i].NAXIS2, hdus[i].NAXIS1>>, dst)
            THEN "ValueError"
            ELSE ""
        bad == {k \in DOMAIN imgs : err(imgs[k]) # ""}
        img_data ==
            [t \in Indices(shape) |->
                IF t[4] \in Range(imgs)
                THEN hdus[t[4]].data[
                        BroadcastIndex(<<hdus[t[4]].NAXIS2, hdus[t[4]].NAXIS1>>, dst,
                                       <<t[1], t[2], t[3]>>)]
                ELSE 0]
    IN  IF bad # {}
        THEN [exc |-> err(imgs[CHOOSE k \in bad : \A j \in bad : k <= j]),
              shape |-> <<>>, data |-> <<>>]
        ELSE [exc |-> "", shape |-> shape, data |-> img_data]

\* lines 511-634: BatSkyImage.from_file(file) on the given build
from_file(file, build) ==
    Let(file.hdus, LAMBDA hdus :
    LET kinds == [i \in DOMAIN hdus |-> Classify(hdus[i])]
        bad == {i \in DOMAIN hdus : kinds[i] \in {"KeyError", "ValueError"}}
        firstBad == CHOOSE i \in bad : \A j \in bad : i <= j
        imgs == Positions(hdus, "image")
        ebounds == Positions(hdus, "ebounds")
        stdgti == Positions(hdus, "stdgti")
        n_times == IF stdgti # <<>> THEN hdus[Last(stdgti)].NAXIS2 ELSE 1
        n_energies == IF ebounds # <<>> THEN hdus[Last(ebounds)].NAXIS2 ELSE Len(imgs)
    IN  IF ~file.exists THEN Raise("ValueError", 521, <<>>)
        ELSE IF bad # {}
        THEN Raise(kinds[firstBad], IF kinds[firstBad] = "KeyError" THEN 533 ELSE 540, <<>>)
        ELSE IF imgs = <<>> THEN Raise("IndexError", 545, <<>>)
        ELSE IF ImgUnit(hdus, imgs) = "" THEN Raise("KeyError", 553, <<>>)
        ELSE IF n_times > 1 THEN Raise("NotImplementedError", 571, <<>>)
        ELSE IF Len(imgs) # n_energies THEN Raise("ValueError", 576, <<>>)
        ELSE
        Let(FillImages(hdus, imgs, n_times, n_energies), LAMBDA filled :
            IF filled.exc # "" THEN Raise(filled.exc, 592, <<>>)
            ELSE
                LET first == hdus[imgs[1]]
                    time_data == hdus[Last(stdgti)]
                    energy_data == hdus[Last(ebounds)]
                    min_t == IF stdgti # <<>> THEN Squeeze(Column(time_data, 1))
                             ELSE Scalar(first.TSTART)
                    max_t == IF stdgti # <<>> THEN Squeeze(Column(time_data, 2))
                             ELSE Scalar(first.TSTOP)
                    min_e == IF ebounds # <<>> THEN Arr(Column(energy_data, 1))
                             ELSE Arr([k \in DOMAIN imgs |-> hdus[imgs[k]].E_MIN])
                    max_e == IF ebounds # <<>> THEN Arr(Column(energy_data, 2))
                             ELSE Arr([k \in DOMAIN imgs |-> hdus[imgs[k]].E_MAX])
                IN  BatSkyImage(
                        [image_data |-> ArrayData(filled.shape, filled.data,
                                                  ImgUnit(hdus, imgs)),
                         timebins |-> None, tmin |-> min_t, tmax |-> max_t,
                         energybins |-> None, emin |-> min_e, emax |-> max_e,
                         wcs |-> "WCS0", is_mosaic_intermediate |-> FALSE,
                         image_type |-> ImType(first), quantities |-> "ok"],
                        build)))

(***************************************************************************)
(* The inputs the operations are called with.                              *)
(***************************************************************************)
\* <<from, from + 1, ..., from + n - 1>>
Ramp(from, n) == [i \in 1..n |-> from + i - 1]

ValidArgs ==
    [image_data |-> NoData, timebins |-> Arr(Ramp(0, 2)), tmin |-> None, tmax |-> None,
     energybins |-> None, emin |-> None, emax |-> None, wcs |-> "WCS0",
     is_mosaic_intermediate |-> FALSE, image_type |-> "None", quantities |-> "ok"]

ImageTypes == Range(_accepted_image_types) \cup {"None"}

\* An image of one row of two pixels and n energy bins: the first pixel
\* holds s[e] in energy bin e and the second pixel MaxVal - s[e].
PixelData(shape, s) ==
    [t \in Indices(shape) |->
        IF t[Len(shape) - 1] % 2 = 1 THEN s[t[Len(shape)]] ELSE MaxVal - s[t[Len(shape)]]]

\* the values of pixel 1 over the energy bins: any value in the last bin,
\* 1 in the bins before it
Seeds(n) == {s \in [1..n -> 0..MaxVal] : \A e \in 1..(n - 1) : s[e] = 1}

\* a HEALPix map of nside 1 in galactic coordinates with the same contents,
\* pixel p holding what image pixel 1 or 2 holds
HpxAxes(ntime, nenergy, nside, coordsys) ==
    <<Axis("TIME", Ramp(0, ntime + 1)), HealpixAxis(nside, coordsys),
      Axis("ENERGY", Ramp(1, nenergy + 1))>>

ImgAxes(ntime, nenergy) ==
    <<Axis("TIME", Ramp(0, ntime + 1)), Axis("IMY", PixelEdges(1)),
      Axis("IMX", PixelEdges(2)), Axis("ENERGY", Ramp(1, nenergy + 1))>>

\* the images whose contents the projections are checked on: arrays of
\* shape (1, 1, 2, n) with n + 1 energy edges, and HEALPix Histograms of
\* nside 1, for every image type, with and without the mosaic flag
ArrayArgs(n) ==
    {[ValidArgs EXCEPT
        !.image_data = ArrayData(<<1, 1, 2, n>>, PixelData(<<1, 1, 2, n>>, s), ""),
        !.energybins = Arr(Ramp(1, n + 1)),
        !.is_mosaic_intermediate = m, !.image_type = ty] :
     s \in Seeds(n), m \in BOOLEAN, ty \in ImageTypes}

HpxArgs(n) ==
    {[ValidArgs EXCEPT
        !.image_data = Histogram(HpxAxes(1, n, 1, "galactic"),
                                 PixelData(<<1, 12, n>>, s), "ct"),
        !.timebins = None, !.wcs = "None",
        !.is_mosaic_intermediate = m, !.image_type = ty] :
     s \in Seeds(n), m \in BOOLEAN, ty \in ImageTypes}

\* a HEALPix map whose axis was made without a coordinate system
\* (HealpixAxis(nside=1, label="HPX"): coordsys is None)
FramelessArgs ==
    {[ValidArgs EXCEPT
        !.image_data = Histogram(HpxAxes(1, 1, 1, "None"),
                                 PixelData(<<1, 12, 1>>, s), "ct"),
        !.timebins = None, !.wcs = "None"] :
     s \in Seeds(1)}

DataArgs == UNION {ArrayArgs(n) \cup HpxArgs(n) : n \in 1..MaxEnergyBins} \cup FramelessArgs

\* The ways of giving the time bounds.  timebins: nothing, 1..MaxTimeBins + 1
\* increasing edges, or two edges that decrease.
TimebinChoices ==
    {None, Arr(<<1, 0>>)} \cup {Arr(Ramp(0, k)) : k \in 1..(MaxTimeBins + 1)}

\* tmin and tmax: nothing, a scalar, or an array of 1..MaxTimeBins values;
\* a scalar is never paired with an array
TminChoices == {None, Scalar(0)} \cup {Arr(Ramp(0, k)) : k \in 1..MaxTimeBins}
TmaxChoices == {None, Scalar(1)} \cup {Arr(Ramp(1, k)) : k \in 1..MaxTimeBins}
SameKind(lo, hi) == IsNone(lo) \/ IsNone(hi) \/ lo.nd = hi.nd
TimeBounds == {p \in TminChoices \X TmaxChoices : SameKind(p[1], p[2])}

\* the image data the time bounds come with: none, an array of one time
\* bin, and Histograms of 1..MaxTimeBins time bins, of image pixels and of
\* HEALPix pixels
TimeData ==
    {[image_data |-> NoData, energybins |-> Arr(Ramp(1, 2))],
     [image_data |-> ArrayData(<<1, 1, 2, 1>>, PixelData(<<1, 1, 2, 1>>, <<1>>), ""),
      energybins |-> Arr(Ramp(1, 2))]}
    \cup {[image_data |-> Histogram(ImgAxes(k, 1),
                                     PixelData(<<k, 1, 2, 1>>, <<1>>), "ct"),
           energybins |-> None] : k \in 1..MaxTimeBins}
    \cup {[image_data |-> Histogram(HpxAxes(k, 1, 1, "galactic"),
                                     PixelData(<<k, 12, 1>>, <<1>>), "ct"),
           energybins |-> None] : k \in 1..MaxTimeBins}

\* the wcs and image_type they come with: accepted ones, an image_type
\* that is no accepted string, a wcs that is no WCS object
OtherArgs ==
    {[wcs |-> "WCS0", image_type |-> "flux"],
     [wcs |-> "None", image_type |-> "None"],
     [wcs |-> "WCS0", image_type |-> "bogus"],
     [wcs |-> "notWCS", image_type |-> "flux"]}

TimeArgs ==
    {[ValidArgs EXCEPT
        !.image_data = d.image_data, !.energybins = d.energybins,
        !.timebins = tb, !.tmin = p[1], !.tmax = p[2],
        !.wcs = o.wcs, !.image_type = o.image_type] :
     d \in TimeData, tb \in TimebinChoices, p \in TimeBounds, o \in OtherArgs}

\* The ways of giving the energy bounds of an array of 1..MaxEnergyBins
\* energy bins: energybins of 1 or 2 bins or nothing, emin and emax nothing,
\* a scalar, or arrays of 1..3 values that touch, leave a gap or overlap,
\* in ascending order or not
EminChoices ==
    {None, Scalar(1), Arr(<<1>>), Arr(<<1, 2>>), Arr(<<1, 3>>), Arr(<<3, 1>>),
     Arr(<<1, 2, 3>>)}
EmaxChoices ==
    {None, Scalar(2), Arr(<<2>>), Arr(<<2, 3>>), Arr(<<2, 4>>), Arr(<<3, 4>>),
     Arr(<<4, 2>>)}
EnergyBounds == {p \in EminChoices \X EmaxChoices : SameKind(p[1], p[2])}

\* the shapes of the arrays they come with: 4-D of one time bin, 3-D, and
\* 4-D of two time bins, the last axis of 1..MaxEnergyBins bins
ArrayShapes ==
    UNION {{<<1, 1, 2, n>>, <<1, 2, n>>, <<2, 1, 2, n>>} : n \in 1..MaxEnergyBins}

EnergyArgs ==
    {[ValidArgs EXCEPT
        !.image_data =
            ArrayData(shape, PixelData(shape, [e \in 1..shape[Len(shape)] |-> 1]), ""),
        !.energybins = eb, !.emin = p[1], !.emax = p[2], !.image_type = "flux"] :
     shape \in ArrayShapes,
     eb \in {None, Arr(Ramp(1, 2)), Arr(Ramp(1, 3))}, p \in EnergyBounds}

\* an image_type that is no string
NotAString == "<int>"

\* Each argument right or wrong, in every combination: the image data
\* missing, a 4-D or a 3-D array; the time and energy arguments Quantities
\* or not; image_type and wcs accepted or not; timebins of two or three
\* edges, or a tmin without its tmax; energybins given or left out
CheckArgs ==
    {[ValidArgs EXCEPT
        !.image_data = d, !.quantities = q, !.image_type = ty, !.wcs = w,
        !.timebins = t[1], !.tmin = t[2], !.energybins = eb] :
     d \in {NoData,
            ArrayData(<<1, 1, 2, 1>>, PixelData(<<1, 1, 2, 1>>, <<1>>), ""),
            ArrayData(<<1, 2, 1>>, PixelData(<<1, 2, 1>>, <<1>>), "")},
     q \in {"ok", "no unit", "wrong unit"},
     ty \in {"flux", "None", "bogus", NotAString},
     w \in {"WCS0", "None", "notWCS"},
     t \in {<<Arr(Ramp(0, 2)), None>>, <<Arr(Ramp(0, 3)), None>>,
            <<Arr(Ramp(0, 2)), Scalar(0)>>},
     eb \in {None, Arr(Ramp(1, 2))}}

ConstructorArgs == DataArgs \cup TimeArgs \cup EnergyArgs \cup CheckArgs

\* The HDU at index i of a file (from 1): an image of one row of two pixels
\* that holds v and MaxVal - v, v going through 1..MaxVal with i, observed
\* from 0 to 1 in the energies i to i + 1
ImageHDU(extname, i) ==
    [EXTNAME |-> extname, NAXIS1 |-> 2, NAXIS2 |-> 1, BUNIT |-> "ct",
     TSTART |-> 0, TSTOP |-> 1, E_MIN |-> i, E_MAX |-> i + 1,
     data |-> [t \in Indices(<<1, 2>>) |->
                  IF t[2] = 1 THEN ((i - 1) % MaxVal) + 1
                  ELSE MaxVal - (((i - 1) % MaxVal) + 1)]]

\* a table of n rows <<from + k - 1, from + k>>
TableHDU(extname, from, n) ==
    [EXTNAME |-> extname, NAXIS1 |-> 2, NAXIS2 |-> n, BUNIT |-> "",
     TSTART |-> 0, TSTOP |-> 0, E_MIN |-> 0, E_MAX |-> 0,
     data |-> [t \in Indices(<<n, 2>>) |-> from + t[1] + t[2] - 2]]

ExtNames ==
    {"BAT_IMAGE_1", "BAT_PCODE_1", "BAT_SIGNIF_1", "BAT_VARMAP_1", "PCODE_IMAGE",
     "bat_image_1", "BAT_EXPOSURE_1", "PRIMARY", NoExtname}

HDUChoices(i) ==
    {ImageHDU(n, i) : n \in ExtNames}
    \cup {TableHDU("EBOUNDS", 1, n) : n \in 1..MaxEnergyBins}
    \cup {TableHDU("STDGTI", 0, n) : n \in 0..MaxTimeBins}

NoFile == [exists |-> FALSE, hdus |-> <<>>]

\* the sequences of n HDUs
RECURSIVE HDULists(_)
HDULists(n) ==
    IF n = 0 THEN {<<>>}
    ELSE {Append(h, x) : h \in HDULists(n - 1), x \in HDUChoices(n)}

\* the files: one that does not exist, and those of 1..MaxHDUs HDUs
Files ==
    {NoFile} \cup {[exists |-> TRUE, hdus |-> h] :
                     h \in UNION {HDULists(n) : n \in 1..MaxHDUs}}

CoordSystems == {"galactic", "icrs"}
NSides == {1, 2}

\* the axes project is asked to keep: 1..MaxKeep distinct labels of the
\* image, in any order
KeepChoices(axes) ==
    LET L == Range(Labels(axes))
    IN  UNION {{q \in [1..n -> L] : \A i, j \in 1..n : i # j => q[i] # q[j]} :
               n \in 1..MaxKeep}

(***************************************************************************)
(* BatSkyView (bat_skyview.py).  The constructor is followed step by step: *)
(* view.pc is the place it has reached, view.calls the invocations of      *)
(* batfftimage made so far with what each did, view.parsed the number of   *)
(* times BatSkyImage.from_file was called on the sky image file.           *)
(***************************************************************************)
\* a file argument: not given, the Path of a file that exists, the Path of
\* one that does not, or a str naming a file that exists (no Path: it has
\* neither parent nor stem)
FileArgs == {"None", "exists", "missing", "str"}

ViewArgs ==
    [skyimg_file : {"None", "exists", "missing"},
     dpi_file : FileArgs,
     detector_quality_file : {"None", "exists", "missing"},
     attitude_file : {"None", "exists", "missing"},
     dpi_data : {"None", "array"},
     recalc : BOOLEAN,
     create_pcode_map : BOOLEAN,
     create_snr_map : BOOLEAN,
     create_bkg_stddev_map : BOOLEAN]

\* what one invocation of hsp.batfftimage does: it returns a result whose
\* returncode is 0 or not, or it raises an Exception
ToolOutcomes == {"returncode 0", "returncode 1", "raises"}

NoView ==
    [pc |-> "idle", args |-> CHOOSE a \in ViewArgs : TRUE, calls |-> <<>>,
     exc |-> "", line |-> 0, skyimg_exists |-> FALSE, input_dict |-> "unset",
     parsed |-> 0]

\* raise exc at the given line: the constructor is left
ViewRaise(v, exc, line) == [v EXCEPT !.pc = "raised", !.exc = exc, !.line = line]

\* dpi_file.parent, dpi_file.stem of lines 80, 118, 122, 144: attributes of
\* the argument as passed
HasStem(a) == a.dpi_file \in {"exists", "missing"}

\* lines 56-102: the checks of the arguments; <<exc, line>> of the first
\* that fails
ViewArgChecks(a) ==
    IF a.dpi_data # "None" THEN <<"NotImplementedError", 58>>
    ELSE IF a.dpi_file = "missing" THEN <<"ValueError", 65>>
    ELSE IF a.dpi_file = "None" /\ a.skyimg_file = "None" THEN <<"ValueError", 73>>
    ELSE IF a.skyimg_file = "None" /\ ~HasStem(a) THEN <<"AttributeError", 80>>
    ELSE IF a.detector_quality_file = "missing" THEN <<"ValueError", 85>>
    ELSE IF a.attitude_file = "missing" THEN <<"ValueError", 98>>
    ELSE IF a.attitude_file = "None" THEN <<"ValueError", 102>>
    ELSE <<"", 0>>

\* lines 108-123: the sky image is made again; the names of the maps asked
\* for are built from dpi_file.stem
ViewPrepare(v) ==
    IF (v.args.create_bkg_stddev_map \/ v.args.create_snr_map) /\ ~HasStem(v.args)
    THEN ViewRaise(v, "AttributeError",
                   IF v.args.create_bkg_stddev_map THEN 118 ELSE 122)
    ELSE [v EXCEPT !.pc = "call sky image", !.input_dict = "set"]

\* lines 30-108: BatSkyView(**a) up to the first invocation of the tool.
\* exists says whether the sky image file is there (with skyimg_file None
\* the file test_<stem>.img beside the DPI).
ViewInit(a, exists) ==
    LET v == [NoView EXCEPT !.args = a, !.skyimg_exists = exists]
        e == ViewArgChecks(a)
    IN  IF e[1] # "" THEN ViewRaise(v, e[1], e[2])
        ELSE IF ~exists \/ a.recalc THEN ViewPrepare(v)
        ELSE [v EXCEPT !.pc = "parse", !.input_dict = "None"]

\* lines 133 and 149: returncode != 0, with the test left out
ReturncodeNonzero_Ignored(outcome) == outcome \in {}

\* lines 133 and 149: returncode != 0
ReturncodeNonzero(outcome) == outcome = "returncode 1"

\* lines 164-183: _call_batfftimage(input_dict), for the sky image or for
\* the partial coding map; an Exception of the tool becomes a RuntimeError.
\* A run that returns 0 leaves its output file behind.
call_batfftimage(v, outcome) ==
    LET what == IF v.pc = "call sky image" THEN "sky image" ELSE "pcode"
        w == [v EXCEPT !.calls = Append(@, [what |-> what, outcome |-> outcome])]
    IN  IF outcome = "raises" THEN ViewRaise(w, "RuntimeError", 181)
        ELSE [w EXCEPT !.pc = IF what = "sky image" THEN "check sky image"
                                ELSE "check pcode",
                       !.skyimg_exists =
                           IF what = "sky image" /\ outcome = "returncode 0"
                           THEN TRUE ELSE @]

\* lines 133-151: the test of the returncode of the last invocation, and
\* what follows it
check_returncode(v) ==
    LET last == v.calls[Len(v.calls)]
    IN  IF ReturncodeNonzero(last.outcome)
        THEN ViewRaise(v, "RuntimeError", IF v.pc = "check sky image" THEN 134 ELSE 150)
        ELSE IF v.pc = "check sky image" /\ v.args.create_pcode_map
        THEN IF HasStem(v.args) THEN [v EXCEPT !.pc = "call pcode"]
             ELSE ViewRaise(v, "AttributeError", 144)
        ELSE [v EXCEPT !.pc = "parse"]

\* what BatSkyImage.from_file does with the sky image file
FromFileOutcomes == {"image", "raises"}

\* lines 185-241: _parse_skyimages.  fits.open of line 206 is given
\* self.sky_img, the BatSkyImage that from_file returned, and not the file:
\* it raises, so the HISTORY records of lines 209-241 are never read.
parse_skyimages(v, outcome) ==
    IF ~v.skyimg_exists THEN ViewRaise(v, "ValueError", 196)
    ELSE LET w == [v EXCEPT !.parsed = @ + 1]
         IN  IF outcome = "raises" THEN ViewRaise(w, "ValueError", 203)
             ELSE ViewRaise(w, "OSError", 206)

(***************************************************************************)
(* The HISTORY records (batobservation.py lines 379-407, bat_skyview.py    *)
(* lines 209-241).  A record is the sequence of the words i.split(" ")     *)
(* gives; a value of the dictionary is the sequence of the fragments it    *)
(* was put together from, so that + is \o.  parse follows the loop record  *)
(* by record; parse.changed holds the indices of the records at which the  *)
(* dictionary was written.                                                 *)
(***************************************************************************)
\* the records of a header are at most this many
MaxRecords == 4

StartRecord == <<"START", "PARAMETER", "list", "for", "taskname_1.48">>
EndRecord == <<"END", "PARAMETER", "list", "for", "taskname_1.48">>
EmptyRecord == <<"">>
\* P1 infile = a, P2 outfile = b, and a value that holds the name of the
\* task
ParamRecords ==
    {<<"P1", "infile", "=", "a">>, <<"P2", "outfile", "=", "b">>,
     <<"P2", "outfile", "=", "taskname.out">>}
\* the rest of a value that did not fit its record
ContinuationRecord == <<"P1", "c">>

RecordChoices ==
    {StartRecord, EndRecord, EmptyRecord, ContinuationRecord} \cup ParamRecords

\* taskname in i, "START" in i, len(i) of a record i
HasTaskname(rec) == \E k \in DOMAIN rec : rec[k] \in {"taskname_1.48", "taskname.out"}
HasSTART(rec) == \E k \in DOMAIN rec : rec[k] = "START"
IsEmpty(rec) == rec = EmptyRecord

\* test.default_params.copy(): the parameters of the tool and their
\* defaults
default_params == [k \in {"infile", "outfile"} |-> <<"NONE">>]

Parsers == {"lightcurve", "skyimage"}

Unbound == "<unbound>"

NoParse ==
    [parser |-> "none", records |-> <<>>, pos |-> 1, start_processing |-> "None",
     dict |-> default_params, old_parameter |-> Unbound, exc |-> "", changed |-> {}]

\* lines 386-391 (217-222): the switch after the record
StartProcessing_NeverStops(sp, rec) ==
    IF HasTaskname(rec) /\ sp = "None" THEN "True" ELSE sp

StartProcessing(sp, rec) ==
    IF HasTaskname(rec) /\ sp = "None" THEN "True"
    ELSE IF HasTaskname(rec) /\ sp = "True" THEN "False"
    ELSE sp

\* d[key] = value
Store(d, key, value) ==
    [k \in DOMAIN d \cup {key} |-> IF k = key THEN value ELSE d[k]]

\* lines 385-405 (216-239): one turn of the loop, on the record at p.pos.
\* The light-curve parser sets old_parameter after every record it
\* processes (line 405), the sky-image parser after a record with "=" only
\* (line 239).
ParseRecord(p) ==
    LET i == p.records[p.pos]
        sp == StartProcessing(p.start_processing, i)
        q == [p EXCEPT !.start_processing = sp, !.pos = @ + 1]
        parameter == i[2]
        last == i[Len(i)]
        stop(exc) == [q EXCEPT !.exc = exc]
    IN  IF ~(sp = "True" /\ ~HasSTART(i) /\ ~IsEmpty(i)) THEN q
        ELSE IF Len(i) < 2 THEN stop("IndexError")
        ELSE IF \A k \in DOMAIN i : i[k] # "="
        THEN IF p.old_parameter = Unbound THEN stop("UnboundLocalError")
             ELSE IF p.old_parameter \notin DOMAIN p.dict THEN stop("KeyError")
             ELSE [q EXCEPT
                     !.dict = Store(p.dict, p.old_parameter,
                                    p.dict[p.old_parameter] \o <<last>>),
                     !.changed = @ \cup {p.pos},
                     !.old_parameter =
                         IF p.parser = "lightcurve" THEN parameter ELSE @]
        ELSE [q EXCEPT !.dict = Store(p.dict, parameter, <<last>>),
                       !.changed = @ \cup {p.pos},
                       !.old_parameter = parameter]

\* the sequences of at most n records
RECURSIVE RecordLists(_)
RecordLists(n) ==
    IF n = 0 THEN {<<>>}
    ELSE LET shorter == RecordLists(n - 1)
         IN  shorter \cup {Append(h, r) : h \in shorter, r \in RecordChoices}

(***************************************************************************)
(* BatEvent.__init__ (bat_tte.py), step by step.  fs is what the           *)
(* constructor finds and leaves on disk beside the observation directory:  *)
(* a path is <<directory, name>>, the result directory itself is           *)
(* <<"eventresult">>.  lists holds the file attributes that still hold the *)
(* list glob returned, attrs the attributes assigned so far.               *)
(***************************************************************************)
MaxFiles == 2

\* what the globs of lines 95-103 and the directory tests of line 86 find
Listings ==
    [subdirs : BOOLEAN, attitude : 0..MaxFiles, event : 0..MaxFiles,
     gz : BOOLEAN, enable : 0..MaxFiles, quality : 0..MaxFiles,
     raytracing : 0..MaxFiles, gain : 0..MaxFiles, centroid : BOOLEAN]

NoListing == [subdirs |-> FALSE, attitude |-> 0, event |-> 0, gz |-> FALSE,
              enable |-> 0, quality |-> 0, raytracing |-> 0, gain |-> 0,
              centroid |-> FALSE]

\* the ra and dec arguments: the two words the constructor knows, or a float
RaChoices == {"event", "tdrss", "float"}

\* what the external bateconvert call does
ConvertOutcomes == {"ok", "raises"}

FileAttributes ==
    <<"event_files", "auxil_raytracing_file", "enable_disable_file",
      "detector_quality_file", "attitude_file", "tdrss_files",
      "gain_offset_file">>

\* the lines of the shutil.copy calls, in the order of FileAttributes
CopyLines == <<261, 262, 264, 265, 266, 267, 268>>

ResultDir == <<"eventresult">>
Marker(dir) == <<dir, ".batevent_complete">>
Pickle(dir) == <<dir, "batevent.pickle">>

NoEvent ==
    [pc |-> "idle", recalc |-> FALSE, ra |-> "event", found |-> NoListing,
     load_dir |-> "obs_dir", lists |-> {}, attrs |-> {}, coord_match |-> FALSE,
     exc |-> "", line |-> 0, touched |-> FALSE, saved |-> FALSE,
     loaded |-> FALSE, fs |-> {}]

EventRaise(e, exc, line) == [e EXCEPT !.pc = "done", !.exc = exc, !.line = line]

\* lines 49-66 with load_dir None: the first directory <obs_id>_event* when
\* recalc is False and there is one, the observation directory otherwise
load_dir(recalc, fs) ==
    IF ~recalc /\ ResultDir \in fs THEN "eventresult" ELSE "obs_dir"

\* lines 37-84 and 290-292: a new construction on the disk the last one left
BatEventInit(e, recalc, ra) ==
    LET dir == load_dir(recalc, e.fs)
        new == [NoEvent EXCEPT !.recalc = recalc, !.ra = ra, !.load_dir = dir,
                               !.fs = e.fs,
                               !.attrs = {"obs_id", "obs_dir", "_local_pfile_dir"}]
    IN  IF recalc \/ Pickle(dir) \notin e.fs \/ Marker(dir) \notin e.fs
        THEN [new EXCEPT !.pc = "directories"]
        ELSE [new EXCEPT !.pc = "done", !.loaded = TRUE]

\* lines 86-103
FindFiles(e, listing) ==
    IF ~listing.subdirs THEN EventRaise(e, "ValueError", 89)
    ELSE [e EXCEPT !.pc = "files", !.found = listing,
                   !.lists = {FileAttributes[k] : k \in DOMAIN FileAttributes},
                   !.attrs = @ \cup {FileAttributes[k] : k \in DOMAIN FileAttributes}]

\* lines 107-156
CheckFiles(e) ==
    LET f == e.found
    IN  IF f.attitude > 1 THEN EventRaise(e, "ValueError", 108)
        ELSE IF f.attitude < 1 THEN EventRaise(e, "ValueError", 111)
        ELSE IF f.event < 1 THEN EventRaise(e, "FileNotFoundError", 118)
        ELSE IF f.gz
        THEN EventRaise([e EXCEPT !.lists = @ \ {"attitude_file", "event_files"}],
                        "NameError", 128)
        ELSE IF f.enable < 1 THEN EventRaise(e, "FileNotFoundError", 133)
        ELSE IF f.enable > 1 THEN EventRaise(e, "ValueError", 136)
        ELSE IF f.quality < 1 THEN EventRaise(e, "FileNotFoundError", 149)
        ELSE IF f.quality > 1 THEN EventRaise(e, "ValueError", 152)
        ELSE [e EXCEPT !.pc = "coordinates",
                       !.lists = @ \ {"attitude_file", "event_files",
                                      "enable_disable_file",
                                      "detector_quality_file"}]

\* lines 204-222
CheckRaytracing(e, coord_match) ==
    IF e.found.raytracing < 1 \/ ~coord_match
    THEN EventRaise(e, "FileNotFoundError", 215)
    ELSE IF e.found.raytracing > 1 THEN EventRaise(e, "ValueError", 218)
    ELSE [e EXCEPT !.pc = "calibrate", !.coord_match = coord_match,
                   !.attrs = @ \cup {"ra", "dec"},
                   !.lists = @ \ {"auxil_raytracing_file"}]

\* lines 169-222; same_position is whether the TDRSS message and the event
\* file give the same coordinates
Coordinates(e, same_position) ==
    IF e.ra = "float" THEN EventRaise(e, "TypeError", 182)
    ELSE IF e.ra = "tdrss"
    THEN IF ~e.found.centroid THEN EventRaise(e, "UnboundLocalError", 184)
         ELSE CheckRaytracing(e, same_position)
    ELSE CheckRaytracing(e, TRUE)

\* lines 231-235 and apply_energy_correction (lines 374-389)
Calibrate(e, calibrated, outcome) ==
    IF calibrated THEN [e EXCEPT !.pc = "copy"]
    ELSE IF e.found.gain < 1 THEN EventRaise(e, "NameError", 381)
    ELSE IF outcome = "raises" THEN EventRaise(e, "RuntimeError", 389)
    ELSE [e EXCEPT !.pc = "copy"]

\* the first attribute shutil.copy is given a list for, 0 if there is none
FirstList(e) ==
    IF \E k \in DOMAIN FileAttributes : FileAttributes[k] \in e.lists
    THEN CHOOSE k \in DOMAIN FileAttributes :
             /\ FileAttributes[k] \in e.lists
             /\ \A j \in 1..(k - 1) : FileAttributes[j] \notin e.lists
    ELSE 0

\* BatEvent.save, lines 310-313
save(e) ==
    IF "result_dir" \notin e.attrs THEN EventRaise(e, "AttributeError", 310)
    ELSE [e EXCEPT !.pc = "done", !.saved = TRUE,
                   !.fs = @ \cup {Pickle("eventresult")}]

\* lines 280-283: the marker, then the save
TouchAndSave(e) ==
    save([e EXCEPT !.touched = TRUE, !.fs = @ \cup {Marker(e.load_dir)}])

\* lines 241-283
CopyAndFinish(e) ==
    LET made == [e EXCEPT !.fs = @ \cup {ResultDir}]
    IN  IF FirstList(made) # 0
        THEN EventRaise(made, "TypeError", CopyLines[FirstList(made)])
        ELSE TouchAndSave(made)

(***************************************************************************)
(* The state: img is the BatSkyImage the caller holds (NoImage before a    *)
(* construction and after a failed one), call the last call and its        *)
(* arguments, ret what it returned or raised, warns the warnings it        *)
(* emitted, root the image_type given when the image img derives from was  *)
(* constructed.  call.self is the image a method was called on.            *)
(***************************************************************************)
NoCall ==
    [op |-> "none", args |-> ValidArgs, file |-> NoFile, axis |-> <<>>,
     coordsys |-> "", nside |-> 0, self |-> NoImage]

\* assigned is the value last given to img.image_type by an assignment
\* made after the construction (line 220 stores a plain attribute), or
\* NotAssigned
NotAssigned == "<not assigned>"

NoRet ==
    [ok |-> TRUE, exc |-> "", line |-> 0, branch |-> "", hist |-> NoHist,
     reconciled |-> None]

Init ==
    /\ img = NoImage
    /\ ret = NoRet
    /\ warns = <<>>
    /\ call = NoCall
    /\ root = "None"
    /\ view = NoView
    /\ assigned = NotAssigned
    /\ parse = NoParse
    /\ event = NoEvent

\* BatSkyImage(**a), on either build
Construct(a) ==
    /\ call.op = "none"
    /\ \E r \in {BatSkyImage(a, build) : build \in Builds} :
            /\ img' = r.obj
            /\ ret' = [NoRet EXCEPT !.ok = r.ok, !.exc = r.exc, !.line = r.line,
                                    !.reconciled = r.reconciled]
            /\ warns' = r.warns
    /\ call' = [NoCall EXCEPT !.op = "BatSkyImage", !.args = a]
    /\ root' = a.image_type
    /\ UNCHANGED otherVars

\* BatSkyImage.from_file(file), on either build
FromFile(file) ==
    /\ call.op = "none"
    /\ \E r \in {from_file(file, build) : build \in Builds} :
            /\ img' = r.obj
            /\ ret' = [NoRet EXCEPT !.ok = r.ok, !.exc = r.exc, !.line = r.line,
                                    !.reconciled = r.reconciled]
            /\ warns' = r.warns
            /\ root' = r.obj.image_type
    /\ call' = [NoCall EXCEPT !.op = "from_file", !.file = file]
    /\ UNCHANGED otherVars

\* img = img.healpix_projection(coordsys, nside); a call that raises leaves
\* the caller with the image it had.  project changes nothing of the image,
\* so the calls that follow a project are those that could be made before it.
HealpixProjection(coordsys, nside) ==
    /\ img.kind = "BatSkyImage"
    /\ call.op # "project"
    /\ \E r \in {healpix_projection(img, coordsys, nside, build) : build \in Builds} :
            /\ img' = IF r.ok THEN r.obj ELSE img
            /\ ret' = [NoRet EXCEPT !.ok = r.ok, !.exc = r.exc, !.line = r.line,
                                    !.reconciled = r.reconciled]
            /\ warns' = r.warns
    /\ call' = [NoCall EXCEPT !.op = "healpix_projection",
                              !.coordsys = coordsys, !.nside = nside, !.self = img]
    /\ UNCHANGED <<root, otherVars>>

\* img.project(*axis)
Project(axis) ==
    /\ img.kind = "BatSkyImage"
    /\ call.op # "project"
    /\ \E r \in {project(img, axis)} :
            /\ ret' = [NoRet EXCEPT !.ok = r.ok, !.exc = r.exc,
                                    !.branch = r.branch, !.hist = r.hist]
            /\ warns' = r.warns
    /\ call' = [NoCall EXCEPT !.op = "project", !.axis = axis, !.self = img]
    /\ UNCHANGED <<img, root, otherVars>>

Next ==
    \/ \E a \in ConstructorArgs : Construct(a)
    \/ \E file \in Files : FromFile(file)
    \/ \E c \in CoordSystems, n \in NSides : HealpixProjection(c, n)
    \/ \E axis \in KeepChoices(img.axes) : Project(axis)

Spec == Init /\ [][Next]_vars

(***************************************************************************)
(* What the claims speak of.                                               *)
(***************************************************************************)
\* the cells of the image that project(*axis) collapses into cell j of
\* its result
CollapsedCells(self, axis, j) ==
    {t \in Indices(self.contents.shape) :
        \A k \in DOMAIN axis : t[AxisIndex(self.axes, axis[k])] = j[k]}

\* those of them that lie in the last energy bin
LastEnergyCells(self, axis, j) ==
    {t \in CollapsedCells(self, axis, j) :
        t[AxisIndex(self.axes, "ENERGY")] = EnergyNbins(self)}

SumOfSquares(self, S) ==
    SumOver([t \in S |-> Mul(self.contents.data[t], self.contents.data[t])], S)

LinearSum(self, S) == SumOver(self.contents.data, S)

\* the last call was img.project(*call.axis) and it returned a Histogram
\* with the kept axes
Projected ==
    /\ call.op = "project"
    /\ ret.ok
    /\ Labels(ret.hist.axes) = call.axis

ResultCells == Indices(ret.hist.contents.shape)

ResultIsLinearSum ==
    \A j \in ResultCells :
        ret.hist.contents.data[j] = Whole(LinearSum(img, CollapsedCells(img, call.axis, j)))

ResultIsQuadratureSum ==
    \A j \in ResultCells :
        ret.hist.contents.data[j] = Sqrt(SumOfSquares(img, CollapsedCells(img, call.axis, j)))

ResultIsLastSlice ==
    \A j \in ResultCells :
        ret.hist.contents.data[j] = Whole(LinearSum(img, LastEnergyCells(img, call.axis, j)))

C3_LastSliceProjection ==
    (/\ call.op = "project"
     /\ img.image_type \in {"pcode", "exposure"}
     /\ CollapsesEnergy(img, call.axis))
    => (Projected /\ ResultIsLastSlice)

\* a HEALPix pcode mosaic intermediate whose first slice holds 1 and whose
\* last slice holds 2 in pixel 1 gives 2 there
C3_Witness ==
    /\ Projected
    /\ img.image_type = "pcode"
    /\ img.is_mosaic_intermediate
    /\ call.axis = <<"HPX">>
    /\ img.contents.shape = <<1, 12, 2>>
    /\ img.contents.data[<<1, 1, 1>>] = 1
    /\ img.contents.data[<<1, 1, 2>>] = 2
    /\ ret.hist.contents.data[<<1>>] = Whole(2)

TypedForSum(types) ==
    \/ img.image_type = "flux"
    \/ img.is_mosaic_intermediate /\ img.image_type \in types

\* C4 as claimed: a flux image, or a mosaic intermediate that is not pcode
\* or exposure typed, with more than one energy bin, projected onto axes
\* without ENERGY, gives the linear sum without warning or error.
C4_Original ==
    (/\ call.op = "project"
     /\ TypedForSum({"flux", "snr", "stddev", "None"})
     /\ CollapsesEnergy(img, call.axis))
    => (Projected /\ ResultIsLinearSum /\ warns = <<>>)

\* C4 as amended: a flux image, or a mosaic intermediate typed snr or
\* stddev, with more than one energy bin, projected onto axes without
\* ENERGY, gives the linear sum without warning or error; a mosaic
\* intermediate without image_type gives the same sum with the warning.
C4_LinearSumProjection ==
    /\ (/\ call.op = "project"
         /\ TypedForSum({"flux", "snr", "stddev"})
         /\ CollapsesEnergy(img, call.axis))
        => (Projected /\ ResultIsLinearSum /\ warns = <<>>)
    /\ (/\ call.op = "project"
         /\ img.is_mosaic_intermediate
         /\ img.image_type = "None"
         /\ CollapsesEnergy(img, call.axis))
        => (Projected /\ ResultIsLinearSum /\ warns = <<"no image_type">>)

\* a mosaic intermediate snr image holding a = 1 and b = 1 gives 2
C4_Witness ==
    /\ Projected
    /\ img.image_type = "snr"
    /\ img.is_mosaic_intermediate
    /\ call.axis = <<"IMY", "IMX">>
    /\ img.contents.shape = <<1, 1, 2, 2>>
    /\ img.contents.data[<<1, 1, 1, 1>>] = 1
    /\ img.contents.data[<<1, 1, 1, 2>>] = 1
    /\ ret.hist.contents.data[<<1, 1>>] = Whole(2)
    /\ warns = <<>>

\* C5: an image without image_type and with more than one energy bin,
\* projected onto axes without ENERGY, emits the one warning of the default
\* sum over ENERGY and returns the linear sum; it does not raise.
C5_UntypedProjectionWarns ==
    (/\ call.op = "project"
     /\ img.image_type = "None"
     /\ CollapsesEnergy(img, call.axis))
    => (Projected /\ ResultIsLinearSum /\ warns = <<"no image_type">>)

C5_Witness ==
    /\ Projected
    /\ img.image_type = "None"
    /\ ~img.is_mosaic_intermediate
    /\ call.axis = <<"IMY", "IMX">>
    /\ img.contents.shape = <<1, 1, 2, 2>>
    /\ img.contents.data[<<1, 1, 1, 1>>] = 1
    /\ img.contents.data[<<1, 1, 1, 2>>] = 2
    /\ ret.hist.contents.data[<<1, 1>>] = Whole(3)
    /\ warns = <<"no image_type">>

\* C6: whatever the image_type and the mosaic flag, a projection that keeps
\* ENERGY, or one of an image with a single energy bin, is the linear sum
\* over the axes left out, with no warning and no error.
C6_OrdinaryProjection ==
    (call.op = "project" /\ ~CollapsesEnergy(img, call.axis))
    => (Projected /\ ResultIsLinearSum /\ warns = <<>>)

\* an snr image whose two pixels hold 1 in an energy bin gives 2 there, not
\* sqrt(2), when ENERGY is kept
C6_Witness ==
    /\ Projected
    /\ img.image_type = "snr"
    /\ ~img.is_mosaic_intermediate
    /\ call.axis = <<"ENERGY">>
    /\ img.contents.shape = <<1, 1, 2, 2>>
    /\ img.contents.data[<<1, 1, 1, 1>>] = 1
    /\ img.contents.data[<<1, 1, 2, 1>>] = 1
    /\ ret.hist.contents.data[<<1>>] = Whole(2)
    /\ warns = <<>>

\* C1 as claimed: an image whose data are snr or stddev data (it was
\* constructed with that image_type, or derives by healpix_projection from
\* an image that was), with more than one energy bin, is never returned by
\* project as the linear sum over ENERGY, where that sum differs from the
\* sum in quadrature.
C1_NeverLinearSum ==
    (/\ Projected
     /\ root \in {"snr", "stddev"}
     /\ CollapsesEnergy(img, call.axis))
    => ~(ResultIsLinearSum /\ ~ResultIsQuadratureSum)

\* C1 for the images that are no mosaic intermediates, which leaves the
\* images that healpix_projection returns
C1_NeverLinearSumFinal ==
    (/\ Projected
     /\ root \in {"snr", "stddev"}
     /\ ~img.is_mosaic_intermediate
     /\ CollapsesEnergy(img, call.axis))
    => ~(ResultIsLinearSum /\ ~ResultIsQuadratureSum)

Constructed == call.op = "BatSkyImage"

\* C7 as claimed: every BatSkyImage there is has one time bin, a TIME axis
\* of two edges and tbins of size 1, however its time bounds were given.
C7_SingleTimeBin ==
    img.kind = "BatSkyImage"
    => /\ Nbins(img.axes[AxisIndex(img.axes, "TIME")]) = 1
       /\ Size(img.tbins.START) = 1

\* the TypeErrors that come before every check of the times: the one of the
\* decorator for a time or energy argument without a unit, and the one of
\* the image_type check of line 93
TypeRaisesFirst(a) ==
    \/ QuantityInput(a).exc = "TypeError"
    \/ /\ QuantityInput(a).exc = ""
       /\ a.image_data.kind # "none" /\ a.image_type \notin ImageTypes

BadTimebins(a) == ~IsNone(a.timebins) /\ Len(a.timebins.v) # 2

\* C8 as claimed: a construction with timebins of other than 2 edges raises
\* a ValueError and leaves no instance.
C8_Original ==
    (Constructed /\ BadTimebins(call.args))
    => (~ret.ok /\ IsValueError(ret.exc) /\ img = NoImage)

\* C8 as amended: a construction with timebins of other than 2 edges leaves
\* no instance; it raises a ValueError, but for a time or energy argument
\* without a unit and for image data that come with an image_type outside
\* the accepted ones, where a TypeError is raised first.
C8_TimebinsOfOtherThanTwoEdges ==
    (Constructed /\ BadTimebins(call.args))
    => /\ ~ret.ok
       /\ img = NoImage
       /\ IF TypeRaisesFirst(call.args) THEN ret.exc = "TypeError"
          ELSE IsValueError(ret.exc)

\* three edges with an array and nothing else wrong: the check of line 135
C8_Witness ==
    /\ Constructed
    /\ call.args.timebins = Arr(<<0, 1, 2>>)
    /\ call.args.image_data.kind = "array"
    /\ IsNone(call.args.tmin) /\ IsNone(call.args.tmax)
    /\ ~ret.ok /\ ret.exc = "ValueError" /\ ret.line = 136
    /\ img = NoImage

UnpairedTimes(a) ==
    \/ IsNone(a.tmin) /\ ~IsNone(a.tmax)
    \/ IsNone(a.tmax) /\ ~IsNone(a.tmin)
    \/ ~IsNone(a.tmin) /\ ~IsNone(a.tmax) /\ Size(a.tmin) # Size(a.tmax)

\* C9 as claimed: a construction with one of tmin and tmax alone, or with
\* tmin and tmax of different sizes, raises a ValueError.
C9_Original ==
    (Constructed /\ UnpairedTimes(call.args))
    => (~ret.ok /\ IsValueError(ret.exc))

\* C9 as amended: a construction with one of tmin and tmax alone, or with
\* tmin and tmax of different sizes, raises a ValueError, but for a time or
\* energy argument without a unit and for image data that come with an
\* image_type outside the accepted ones, where a TypeError is raised first.
C9_UnpairedTimeBounds ==
    (Constructed /\ UnpairedTimes(call.args))
    => /\ ~ret.ok
       /\ IF TypeRaisesFirst(call.args) THEN ret.exc = "TypeError"
          ELSE IsValueError(ret.exc)

\* tmax alone, with timebins that are fine: the check of line 109
C9_Witness ==
    /\ Constructed
    /\ IsNone(call.args.tmin)
    /\ call.args.tmax = Scalar(1)
    /\ call.args.timebins = Arr(<<0, 1>>)
    /\ call.args.image_data.kind = "array"
    /\ ~ret.ok /\ ret.exc = "ValueError" /\ ret.line = 110

MismatchedEnergies(a) ==
    \/ IsNone(a.emin) /\ ~IsNone(a.emax)
    \/ IsNone(a.emax) /\ ~IsNone(a.emin)
    \/ ~IsNone(a.emin) /\ ~IsNone(a.emax) /\ Size(a.emin) # Size(a.emax)

\* C10 as claimed: a construction with one of emin and emax alone, or with
\* emin and emax of different lengths, raises a ValueError.
C10_MismatchedEnergiesRejected ==
    (Constructed /\ MismatchedEnergies(call.args))
    => (~ret.ok /\ IsValueError(ret.exc))

(***************************************************************************)
(* The constructor on plain arrays.                                        *)
(***************************************************************************)
\* nothing wrong with the arguments but, maybe, the array and the energies:
\* Quantities, an accepted image_type, a WCS or no wcs, timebins of two
\* increasing edges and no tmin or tmax
TimesFine(a) ==
    /\ a.quantities = "ok"
    /\ a.image_type \in ImageTypes
    /\ a.wcs \in WCSObjects \cup {"None"}
    /\ a.timebins = Arr(Ramp(0, 2)) /\ IsNone(a.tmin) /\ IsNone(a.tmax)

\* the energies given one way: energybins alone, or emin and emax alone as
\* arrays of one length
EnergiesOneWay(a) ==
    \/ ~IsNone(a.energybins) /\ IsNone(a.emin) /\ IsNone(a.emax)
    \/ /\ IsNone(a.energybins) /\ ~IsNone(a.emin) /\ ~IsNone(a.emax)
       /\ a.emin.nd = 1 /\ a.emax.nd = 1 /\ Size(a.emin) = Size(a.emax)

\* the numbers of energy bins the energies can be read to describe: the
\* intervals of energybins, the pairs of emin and emax, and the intervals
\* between the values of emin and emax
DescribedBins(a) ==
    IF ~IsNone(a.energybins) THEN {Len(a.energybins.v) - 1}
    ELSE {Size(a.emin), Len(UniqueSort(a.emin.v \o a.emax.v)) - 1}

\* the array is not of shape (1, Ny, Nx, Nenergy)
WrongShape(a) ==
    LET shape == a.image_data.shape
    IN  \/ Len(shape) # 4
        \/ shape[1] # 1
        \/ shape[4] \notin DescribedBins(a)

\* C11 as claimed: a construction from a plain array succeeds only for an
\* array of shape (1, Ny, Nx, Nenergy), Nenergy the number of energy bins
\* the energy arguments describe; an array of another dimensionality, time
\* extent or energy extent raises a ValueError.
C11_ArrayShapeValidated ==
    (/\ Constructed
     /\ call.args.image_data.kind = "array"
     /\ TimesFine(call.args) /\ EnergiesOneWay(call.args))
    => /\ ret.ok => ~WrongShape(call.args)
       /\ WrongShape(call.args) => (~ret.ok /\ ret.exc = "ValueError")

\* what does hold: no construction from an array of another shape succeeds
C11_WrongShapeNeverConstructed ==
    (/\ Constructed
     /\ call.args.image_data.kind = "array"
     /\ TimesFine(call.args) /\ EnergiesOneWay(call.args)
     /\ WrongShape(call.args))
    => (~ret.ok /\ img = NoImage)

\* a 3-D array with emin and emax that leave a gap: the IndexError of the
\* assignment of line 179, before the checks of _set_histogram are reached
C11_IndexErrorReached ==
    /\ Constructed
    /\ call.args.image_data.kind = "array"
    /\ Len(call.args.image_data.shape) = 3
    /\ TimesFine(call.args)
    /\ call.args.emin = Arr(<<1, 3>>) /\ call.args.emax = Arr(<<2, 4>>)
    /\ IsNone(call.args.energybins)
    /\ ~ret.ok /\ ret.exc = "IndexError" /\ ret.line = 179

(***************************************************************************)
(* The order of the checks of the constructor.  Each check is stated on    *)
(* the arguments alone, with the exception and the line it raises at.      *)
(***************************************************************************)
MissingImageData(a) == a.image_data.kind = "none"
NoQuantity(a) == QuantityInput(a).exc # ""
UnacceptedImageType(a) == a.image_type \notin ImageTypes
NotAWcs(a) == a.wcs \notin WCSObjects \cup {"None"}
OneOfTminTmax(a) ==
    (IsNone(a.tmin) /\ ~IsNone(a.tmax)) \/ (IsNone(a.tmax) /\ ~IsNone(a.tmin))
TminTmaxSizesDiffer(a) ==
    ~IsNone(a.tmin) /\ ~IsNone(a.tmax) /\ Size(a.tmin) # Size(a.tmax)
NoTimes(a) ==
    /\ a.image_data.kind = "array"
    /\ IsNone(a.timebins) /\ IsNone(a.tmin) /\ IsNone(a.tmax)
NoEnergies(a) ==
    /\ a.image_data.kind = "array"
    /\ IsNone(a.energybins) /\ IsNone(a.emin) /\ IsNone(a.emax)
\* an array that is not 4-D, with energybins alone and no tmin or tmax
NotFourD(a) ==
    /\ a.image_data.kind = "array" /\ Len(a.image_data.shape) # 4
    /\ ~IsNone(a.energybins) /\ IsNone(a.emin) /\ IsNone(a.emax)
    /\ IsNone(a.tmin) /\ IsNone(a.tmax)

Nothing == <<"", 0>>

\* the checks in the order the claim gives them, and the error of the
\* first one that fails
ClaimedError(a) ==
    IF MissingImageData(a) THEN <<"ValueError", 87>>
    ELSE IF NotAWcs(a) THEN <<"ValueError", 105>>
    ELSE IF OneOfTminTmax(a) THEN <<"ValueError", 110>>
    ELSE IF TminTmaxSizesDiffer(a) THEN <<"ValueError", 114>>
    ELSE IF NoTimes(a) THEN <<"ValueError", 123>>
    ELSE IF BadTimebins(a) THEN <<"ValueError", 136>>
    ELSE IF NoEnergies(a) THEN <<"ValueError", 144>>
    ELSE IF NotFourD(a) THEN <<"ValueError", 262>>
    ELSE Nothing

\* the same with the two checks the claim leaves out: the one of the
\* decorator, before everything, and the one of image_type, between the
\* image data and the wcs
OrderedError(a) ==
    IF NoQuantity(a) THEN <<QuantityInput(a).exc, 46>>
    ELSE IF MissingImageData(a) THEN <<"ValueError", 87>>
    ELSE IF UnacceptedImageType(a) THEN <<"TypeError", 94>>
    ELSE ClaimedError(a)

\* C12 as claimed: with several arguments invalid at once the constructor
\* raises the error of the first failed check in the order image data, wcs,
\* tmin/tmax pairing and sizes, number of time bins, energy bins, array
\* shape; missing image data always give the ValueError of line 87.
C12_Original ==
    (Constructed /\ ClaimedError(call.args) # Nothing)
    => (~ret.ok /\ <<ret.exc, ret.line>> = ClaimedError(call.args))

\* C12 as amended: the constructor raises the error of the first failed
\* check in the order units of the time and energy arguments (decorator),
\* image data, image_type, wcs, tmin/tmax pairing and sizes, number of time
\* bins, energy bins, array shape; missing image data give the ValueError
\* of line 87 whenever the time and energy arguments given are Quantities.
C12_ValidationOrder ==
    (Constructed /\ OrderedError(call.args) # Nothing)
    => (~ret.ok /\ <<ret.exc, ret.line>> = OrderedError(call.args))

\* a 3-D array with a wcs that is none, three time edges and no energies:
\* four checks fail, the one of the wcs is reported
C12_Witness ==
    /\ Constructed
    /\ NotAWcs(call.args) /\ BadTimebins(call.args) /\ NoEnergies(call.args)
    /\ Len(call.args.image_data.shape) = 3
    /\ ~NoQuantity(call.args) /\ ~UnacceptedImageType(call.args)
    /\ ~ret.ok /\ ret.exc = "ValueError" /\ ret.line = 105

(***************************************************************************)
(* The wcs argument.                                                       *)
(***************************************************************************)
\* the outcomes of the same construction with a WCS object for the wcs
WithWcs(a) ==
    {BatSkyImage([a EXCEPT !.wcs = "WCS0"], build) : build \in Builds}

\* a construction without wcs ends as one with a WCS object does, but for
\* the warning and the wcs of the instance
AbsentWcsChangesNothing ==
    (Constructed /\ call.args.wcs = "None")
    => /\ \E r \in WithWcs(call.args) :
              /\ ret.ok = r.ok /\ ret.exc = r.exc /\ ret.line = r.line
              /\ img = [r.obj EXCEPT !.wcs = IF r.ok THEN "None" ELSE @]
       /\ ret.ok => (img.wcs = "None" /\ warns = <<"no wcs">>)

\* healpix_projection fails on an image without wcs that is no HEALPix map
DeferredFailure ==
    (/\ call.op = "healpix_projection"
     /\ img.wcs = "None" /\ ~HasAxis(img.axes, "HPX"))
    => ~ret.ok

C13_DeferredWitness ==
    /\ call.op = "healpix_projection"
    /\ img.kind = "BatSkyImage" /\ img.wcs = "None" /\ ~HasAxis(img.axes, "HPX")
    /\ ~ret.ok

(***************************************************************************)
(* The image_type argument.                                                *)
(***************************************************************************)
\* every image there is has an image_type of the closed set, or None
ImageTypeInClosedSet == img.kind = "BatSkyImage" => img.image_type \in ImageTypes

\* C14 as claimed: an image_type that is not None and not one of flux,
\* pcode, snr, stddev, exposure, or that is no string, raises a TypeError;
\* hence every instance has an image_type of that set or None.
C14_Original ==
    /\ (Constructed /\ UnacceptedImageType(call.args))
       => (~ret.ok /\ ret.exc = "TypeError")
    /\ ImageTypeInClosedSet

\* C14 as amended: such an image_type makes the construction fail, with the
\* TypeError of line 94 when the image data are given and the time and
\* energy arguments given are Quantities; the error of the decorator and
\* the ValueError of missing image data come first.  Every instance has an
\* image_type of the closed set or None.
C14_ImageTypeArgument ==
    /\ (Constructed /\ UnacceptedImageType(call.args))
       => /\ ~ret.ok /\ img = NoImage
          /\ <<ret.exc, ret.line>> =
                IF NoQuantity(call.args) THEN <<QuantityInput(call.args).exc, 46>>
                ELSE IF MissingImageData(call.args) THEN <<"ValueError", 87>>
                ELSE <<"TypeError", 94>>
    /\ ImageTypeInClosedSet

\* an image_type that is no accepted string, with image data and nothing
\* else wrong: the TypeError of line 94
C14_Witness ==
    /\ Constructed
    /\ call.args.image_type = "bogus"
    /\ call.args.image_data.kind = "array"
    /\ ClaimedError(call.args) = Nothing /\ ~NoQuantity(call.args)
    /\ ~ret.ok /\ ret.exc = "TypeError" /\ ret.line = 94 /\ img = NoImage

(***************************************************************************)
(* The reconciliation of emin and emax.                                    *)
(***************************************************************************)
\* emin and emax alone, as arrays of one length, and every check before
\* the energies passed
EqualLengthPairs(a) ==
    /\ IsNone(a.energybins) /\ ~IsNone(a.emin) /\ ~IsNone(a.emax)
    /\ a.emin.nd = 1 /\ a.emax.nd = 1 /\ Size(a.emin) = Size(a.emax)
    /\ OrderedError(a) = Nothing

\* the path lines 158-183 take
FastPath(a) == ContiguousTest(a.emin, a.emax) = "all"

\* C15: for emin and emax arrays of one length, contiguous, overlapping or
\* with gaps, the reconciled edge array is there on the fast path and on the
\* general path alike, ascends strictly (so has no duplicates) and holds
\* the values of emin and emax and no others: it is their sorted union.
C15_ReconciledEdges ==
    (Constructed /\ EqualLengthPairs(call.args))
    => /\ ~IsNone(ret.reconciled)
       /\ ret.reconciled.nd = 1
       /\ StrictlyIncreasing(ret.reconciled.v)
       /\ Range(ret.reconciled.v)
              = Range(call.args.emin.v) \cup Range(call.args.emax.v)

\* the fast path: emin = [1, 2] and emax = [2, 3] share the edge 2
C15_Witness ==
    /\ Constructed
    /\ EqualLengthPairs(call.args) /\ FastPath(call.args)
    /\ call.args.emin = Arr(<<1, 2>>) /\ call.args.emax = Arr(<<2, 3>>)
    /\ ret.ok /\ ret.reconciled = Arr(<<1, 2, 3>>)

\* the general path: emin = [1, 2] and emax = [3, 4] overlap
C15_GeneralPathWitness ==
    /\ Constructed
    /\ EqualLengthPairs(call.args) /\ ~FastPath(call.args)
    /\ call.args.emin = Arr(<<1, 2>>) /\ call.args.emax = Arr(<<3, 4>>)
    /\ ret.reconciled = Arr(<<1, 2, 3, 4>>)

(***************************************************************************)
(* The general path on an array: the enlarged contents.                    *)
(***************************************************************************)
\* intervals in ascending order that do not overlap and leave a gap
GappedIntervals(a) ==
    /\ \A k \in DOMAIN a.emin.v : a.emin.v[k] < a.emax.v[k]
    /\ \A k \in 1..(Size(a.emin) - 1) : a.emax.v[k] <= a.emin.v[k + 1]
    /\ \E k \in 1..(Size(a.emin) - 1) : a.emax.v[k] < a.emin.v[k + 1]

\* the energy index (from 1) of the original slice k: the insertion point
\* of emin[k] among the reconciled edges
InsertionPoint(a, k) ==
    SearchSorted(UniqueSort(a.emin.v \o a.emax.v), a.emin.v[k]) + 1

\* the contents the claim describes: the reconciled number of energy bins,
\* slice k of the array at InsertionPoint(a, k), zero elsewhere, the time
\* and spatial extents of the array
EnlargedContents(a) ==
    LET shape == a.image_data.shape
        n == Len(UniqueSort(a.emin.v \o a.emax.v)) - 1
        newshape == <<shape[1], shape[2], shape[3], n>>
    IN  [shape |-> newshape,
         data |-> [t \in Indices(newshape) |->
                     IF \E k \in DOMAIN a.emin.v : InsertionPoint(a, k) = t[4]
                     THEN a.image_data.data[
                              [t EXCEPT ![4] = CHOOSE k \in DOMAIN a.emin.v :
                                                   InsertionPoint(a, k) = t[4]]]
                     ELSE 0]]

\* C16 as claimed: a construction from an array of one energy slice per
\* emin/emax pair, the pairs leaving gaps, stores the enlarged array: one
\* energy bin per interval of the reconciled edges, slice k at the insertion
\* point of emin[k], zero elsewhere, time and spatial extents unchanged.
C16_EnlargedContents ==
    (/\ Constructed
     /\ call.args.image_data.kind = "array"
     /\ TimesFine(call.args)
     /\ EqualLengthPairs(call.args) /\ GappedIntervals(call.args)
     /\ call.args.image_data.shape = <<1, 1, 2, Size(call.args.emin)>>)
    => /\ ret.ok
       /\ img.contents = EnlargedContents(call.args)
       /\ Nbins(img.axes[AxisIndex(img.axes, "ENERGY")])
              = Len(ret.reconciled.v) - 1

\* what the code does with such arguments: the IndexError of line 179
C16_IndexErrorOfLine179 ==
    /\ Constructed
    /\ call.args.image_data.kind = "array"
    /\ call.args.image_data.shape = <<1, 1, 2, 2>>
    /\ TimesFine(call.args)
    /\ call.args.emin = Arr(<<1, 3>>) /\ call.args.emax = Arr(<<2, 4>>)
    /\ EqualLengthPairs(call.args) /\ GappedIntervals(call.args)
    /\ ~ret.ok /\ ret.exc = "IndexError" /\ ret.line = 179

\* no construction from an array on the general path succeeds
C16_GeneralPathNeverSucceeds ==
    (/\ Constructed
     /\ call.args.image_data.kind = "array"
     /\ EqualLengthPairs(call.args) /\ ~FastPath(call.args))
    => ~ret.ok

(***************************************************************************)
(* The bin edges of the images.                                            *)
(***************************************************************************)
EdgesOf(self, label) == self.axes[AxisIndex(self.axes, label)].edges

C17_DecreasingRefused ==
    /\ Constructed
    /\ call.args.timebins = Arr(<<1, 0>>)
    /\ call.args.image_data.kind = "array"
    /\ ~ret.ok /\ ret.line = 275

(***************************************************************************)
(* from_file: the unit of the contents.                                    *)
(***************************************************************************)
FileRead == call.op = "from_file"

\* the image extensions of the file read, in file order
ImageExtensions == Positions(call.file.hdus, "image")

\* C18 as claimed: an image that from_file returns with image_type pcode or
\* snr has dimensionless contents, whatever the extensions of the file; one
\* of another image_type has the unit of the header.
C18_UnitFollowsImageType ==
    (FileRead /\ ret.ok)
    => /\ img.image_type \in {"pcode", "snr"} => img.unit = "dimensionless"
       /\ img.image_type \notin {"pcode", "snr"}
              => img.unit = call.file.hdus[ImageExtensions[1]].BUNIT

\* a partial coding extension followed by a flux extension: the image is
\* typed pcode and its contents are counts
C18_PcodeInCounts ==
    /\ FileRead /\ ret.ok
    /\ Len(call.file.hdus) = 2
    /\ call.file.hdus[1].EXTNAME = "BAT_PCODE_1"
    /\ call.file.hdus[2].EXTNAME = "BAT_IMAGE_1"
    /\ img.image_type = "pcode" /\ img.unit = "ct"

\* what holds of a file whose image extensions are all of one type
C18_UniformFiles ==
    (/\ FileRead /\ ret.ok
     /\ \A k \in DOMAIN ImageExtensions :
            call.file.hdus[ImageExtensions[k]].EXTNAME
                = call.file.hdus[ImageExtensions[1]].EXTNAME
     /\ call.file.hdus[ImageExtensions[1]].EXTNAME # "PCODE_IMAGE")
    => /\ img.image_type \in {"pcode", "snr"} => img.unit = "dimensionless"
       /\ img.image_type \notin {"pcode", "snr"}
              => img.unit = call.file.hdus[ImageExtensions[1]].BUNIT

(***************************************************************************)
(* from_file: the extensions of other names.                               *)
(***************************************************************************)
Keywords == {"image", "pcode", "signif", "varmap", "ebounds", "stdgti"}

\* an extension whose name, in lower case, contains none of the keywords
UnknownName(hdu) ==
    /\ hdu.EXTNAME # NoExtname
    /\ \A w \in Keywords : ~Contains(w, Lower(hdu.EXTNAME))

UnknownAt == {i \in DOMAIN call.file.hdus : UnknownName(call.file.hdus[i])}

\* an HDU without EXTNAME stands before every extension of unknown name
NamelessBefore ==
    \E j \in DOMAIN call.file.hdus :
        /\ call.file.hdus[j].EXTNAME = NoExtname
        /\ \A i \in UnknownAt : j < i

\* C19 as claimed: from_file raises a ValueError and returns no image
\* whenever the file holds an extension whose name contains none of image,
\* pcode, signif, varmap, ebounds, stdgti, wherever that extension stands.
C19_UnknownExtensionValueError ==
    (FileRead /\ UnknownAt # {})
    => (~ret.ok /\ ret.exc = "ValueError" /\ img = NoImage)

\* what does hold: from_file returns no image whenever the file holds such
\* an extension, wherever it stands; it raises the ValueError of line 540,
\* but for an HDU without EXTNAME that stands before it, where the lookup
\* of EXTNAME raises a KeyError.
C19_UnknownExtensionRejected ==
    (FileRead /\ UnknownAt # {})
    => /\ ~ret.ok /\ img = NoImage
       /\ <<ret.exc, ret.line>> =
              IF NamelessBefore THEN <<"KeyError", 533>> ELSE <<"ValueError", 540>>

\* an extension of unknown name after an image extension that is fine
C19_ValueErrorReached ==
    /\ FileRead
    /\ Len(call.file.hdus) = 2
    /\ call.file.hdus[1].EXTNAME = "bat_image_1"
    /\ call.file.hdus[2].EXTNAME = "PRIMARY"
    /\ UnknownAt = {2}
    /\ ~ret.ok /\ ret.exc = "ValueError" /\ ret.line = 540 /\ img = NoImage

\* an HDU without EXTNAME before an extension of unknown name: the KeyError
\* of line 533
C19_KeyErrorReached ==
    /\ FileRead
    /\ Len(call.file.hdus) = 2
    /\ call.file.hdus[1].EXTNAME = NoExtname
    /\ call.file.hdus[2].EXTNAME = "BAT_EXPOSURE_1"
    /\ UnknownAt = {2}
    /\ ~ret.ok /\ ret.exc = "KeyError" /\ ret.line = 533

(***************************************************************************)
(* from_file: the number of energy bins.                                   *)
(***************************************************************************)
\* the energy tables of the file read; the last one is the one that counts
EnergyTables == Positions(call.file.hdus, "ebounds")

HasEnergyTable == call.file.exists /\ EnergyTables # <<>>

EnergyRows == call.file.hdus[Last(EnergyTables)].NAXIS2

\* the energy bounds of the image are those of the headers of the image
\* extensions, one bin each
BoundsFromHeaders ==
    /\ Nbins(img.axes[AxisIndex(img.axes, "ENERGY")]) = Len(ImageExtensions)
    /\ Size(img.ebins.E_MIN) = Len(ImageExtensions)
    /\ \A k \in DOMAIN ImageExtensions :
           /\ img.ebins.E_MIN.v[k] = call.file.hdus[ImageExtensions[k]].E_MIN
           /\ img.ebins.E_MAX.v[k] = call.file.hdus[ImageExtensions[k]].E_MAX

\* C20 as claimed: with an energy table from_file succeeds only if the
\* number of image extensions equals the number of rows of the table, and
\* raises a ValueError otherwise; without one the image has one energy bin
\* per image extension, with the bounds E_MIN and E_MAX of its header.
C20_EnergyBinCount ==
    /\ (FileRead /\ HasEnergyTable)
       => /\ ret.ok => Len(ImageExtensions) = EnergyRows
          /\ Len(ImageExtensions) # EnergyRows
                 => (~ret.ok /\ ret.exc = "ValueError")
    /\ (FileRead /\ ret.ok /\ ~HasEnergyTable) => BoundsFromHeaders

\* a file of an energy table and no image extension: the IndexError of
\* line 545
C20_NoImageIndexError ==
    /\ FileRead /\ HasEnergyTable
    /\ Len(call.file.hdus) = 1
    /\ Len(ImageExtensions) = 0 /\ EnergyRows = 1
    /\ ~ret.ok /\ ret.exc = "IndexError" /\ ret.line = 545

\* what does hold: no file whose numbers differ is read, and the ValueError
\* of line 576 is raised when the file has an image extension, no HDU that
\* the first loop stops at, and a time table of at most one row
C20_CountMismatchRefused ==
    /\ (FileRead /\ HasEnergyTable /\ Len(ImageExtensions) # EnergyRows)
       => /\ ~ret.ok /\ img = NoImage
          /\ (/\ Len(ImageExtensions) > 0
              /\ \A i \in DOMAIN call.file.hdus :
                     Classify(call.file.hdus[i]) \in {"image", "ebounds", "stdgti"}
              /\ \A i \in DOMAIN call.file.hdus :
                     Classify(call.file.hdus[i]) = "stdgti"
                         => call.file.hdus[i].NAXIS2 <= 1)
             => (ret.exc = "ValueError" /\ ret.line = 576)
    /\ (FileRead /\ ret.ok /\ ~HasEnergyTable) => BoundsFromHeaders

\* a file of two image extensions and no table, read
C20_HeadersWitness ==
    /\ FileRead /\ ret.ok /\ ~HasEnergyTable
    /\ Len(ImageExtensions) = 2
    /\ img.ebins.E_MIN = Arr(<<1, 2>>) /\ img.ebins.E_MAX = Arr(<<2, 3>>)

\* an energy table of two rows with one image extension: line 576
C20_MismatchWitness ==
    /\ FileRead /\ HasEnergyTable
    /\ Len(ImageExtensions) = 1 /\ EnergyRows = 2
    /\ ~ret.ok /\ ret.exc = "ValueError" /\ ret.line = 576

(***************************************************************************)
(* from_file: the image_type of the image read.                            *)
(***************************************************************************)
\* the words of the claimed mapping and the image_type of each
TypeKeywords == <<"image", "pcode", "signif", "varmap", "exposure">>

TypeOfKeyword(w) ==
    CASE w = "image" -> "flux"
      [] w = "signif" -> "snr"
      [] w = "varmap" -> "stddev"
      [] OTHER -> w

\* the words of the mapping that the name of an extension contains
KeywordsIn(extname) ==
    {w \in Range(TypeKeywords) : Contains(w, Lower(extname))}

\* a file of image extensions only, all of one name, which contains one
\* word of the mapping
NamedWith(file, w) ==
    /\ file.exists /\ file.hdus # <<>>
    /\ \A i \in DOMAIN file.hdus :
           /\ file.hdus[i].EXTNAME = file.hdus[1].EXTNAME
           /\ KeywordsIn(file.hdus[i].EXTNAME) = {w}

\* the first word of _file_extension_names that the name contains
FirstKeywordIn(extname) ==
    _file_extension_names[
        CHOOSE i \in DOMAIN _file_extension_names :
            /\ Contains(_file_extension_names[i], Lower(extname))
            /\ \A j \in 1..(i - 1) :
                   ~Contains(_file_extension_names[j], Lower(extname))]

\* C21 as claimed: a file whose image extensions are named with one of
\* image, pcode, signif, varmap, exposure is read, and the image has the
\* image_type flux, pcode, snr, stddev, exposure of that word.
C21_Original ==
    \A w \in Range(TypeKeywords) :
        (FileRead /\ NamedWith(call.file, w))
        => (ret.ok /\ img.image_type = TypeOfKeyword(w))

\* C21: the mapping holds of the four words of _file_extension_names.  An
\* image that from_file returns has the image_type of the first of image,
\* pcode, signif, varmap that the name of the first image extension
\* contains; a file of image extensions named with one of these words is
\* read; an extension named with exposure only is an extension of unknown
\* name, and the file is not read.
C21_ImageTypeOfExtension ==
    /\ (FileRead /\ ret.ok)
       => img.image_type
              = TypeOfKeyword(FirstKeywordIn(call.file.hdus[ImageExtensions[1]].EXTNAME))
    /\ \A w \in Range(_file_extension_names) :
           (FileRead /\ NamedWith(call.file, w))
           => (ret.ok /\ img.image_type = TypeOfKeyword(w))
    /\ (FileRead /\ NamedWith(call.file, "exposure"))
       => (~ret.ok /\ ret.exc = "ValueError" /\ ret.line = 540 /\ img = NoImage)

\* a file of two significance extensions, read as snr
C21_Witness ==
    /\ FileRead /\ ret.ok
    /\ NamedWith(call.file, "signif")
    /\ Len(call.file.hdus) = 2
    /\ img.image_type = "snr"

\* a file of one exposure extension, not read
C21_ExposureRefused ==
    /\ FileRead /\ NamedWith(call.file, "exposure")
    /\ Len(call.file.hdus) = 1
    /\ ~ret.ok /\ ret.exc = "ValueError" /\ ret.line = 540

(***************************************************************************)
(* healpix_projection of an image that has a HEALPix axis.                 *)
(***************************************************************************)
HealpixCall == call.op = "healpix_projection"

\* the HEALPix axis of the image the method was called on
StoredHpx == call.self.axes[AxisIndex(call.self.axes, "HPX")]

AlreadyHealpix == HealpixCall /\ HasAxis(call.self.axes, "HPX")

RequestDiffers ==
    StoredHpx.nside # call.nside \/ StoredHpx.coordsys # call.coordsys

\* the call returned an image of the axes and contents of the one it was
\* called on
WrappedCopy ==
    /\ ret.ok /\ img.kind = "BatSkyImage"
    /\ img.axes = call.self.axes
    /\ img.contents = call.self.contents
    /\ img.unit = call.self.unit

\* C22 as claimed: on an image that has a HEALPix axis healpix_projection
\* raises a ValueError if the stored nside or the stored coordinate system
\* differs from the requested one, and otherwise returns a new image of the
\* same axes and the same contents.
C22_HealpixRequestMatched ==
    AlreadyHealpix
    => IF RequestDiffers
       THEN ~ret.ok /\ ret.exc = "ValueError" /\ img = call.self
       ELSE WrappedCopy

\* nside 2 asked of an image of nside 1
C22_MismatchRefused ==
    /\ AlreadyHealpix
    /\ StoredHpx.nside = 1 /\ call.nside = 2
    /\ ~ret.ok /\ ret.exc = "ValueError" /\ ret.line = 346

\* the frame and the resolution of the image asked for again
C22_CopyReturned ==
    /\ AlreadyHealpix /\ ~RequestDiffers
    /\ WrappedCopy
    /\ Nbins(img.axes[AxisIndex(img.axes, "ENERGY")]) = 2

\* a HEALPix axis made without a coordinate system: the AttributeError of
\* line 349
C22_FramelessAxis ==
    /\ AlreadyHealpix
    /\ StoredHpx.coordsys = "None" /\ StoredHpx.nside = call.nside
    /\ ~ret.ok /\ ret.exc = "AttributeError" /\ ret.line = 349

\* what does hold: the claim, of the images of one time bin whose HEALPix
\* axis has a coordinate system
C22_FramedAxes ==
    (/\ AlreadyHealpix /\ StoredHpx.coordsys # "None"
     /\ Nbins(call.self.axes[AxisIndex(call.self.axes, "TIME")]) = 1)
    => IF RequestDiffers
       THEN ~ret.ok /\ ret.exc = "ValueError" /\ ret.line \in {346, 350}
            /\ img = call.self
       ELSE WrappedCopy

\* a HEALPix image of two time bins, asked for its own frame and
\* resolution: the constructor refuses the copy at line 136
C22_TwoTimeBins ==
    /\ AlreadyHealpix /\ ~RequestDiffers
    /\ Nbins(call.self.axes[AxisIndex(call.self.axes, "TIME")]) = 2
    /\ ~ret.ok /\ ret.exc = "ValueError" /\ ret.line = 136

(***************************************************************************)
(* BatSkyView: the construction, step by step.                             *)
(***************************************************************************)
ViewStart ==
    /\ img = NoImage /\ ret = NoRet /\ warns = <<>> /\ call = NoCall /\ root = "None"
    /\ view = NoView
    /\ assigned = NotAssigned
    /\ parse = NoParse
    /\ event = NoEvent

\* BatSkyView(**a) is called: lines 31-123
ViewConstruct(a, exists) ==
    /\ view.pc = "idle"
    /\ view' = ViewInit(a, exists)
    /\ UNCHANGED <<imageVars, assigned, parse, event>>

\* lines 130 and 146: one invocation of the tool
Batfftimage(outcome) ==
    /\ view.pc \in {"call sky image", "call pcode"}
    /\ view' = call_batfftimage(view, outcome)
    /\ UNCHANGED <<imageVars, assigned, parse, event>>

\* lines 133 and 149
CheckReturncode ==
    /\ view.pc \in {"check sky image", "check pcode"}
    /\ view' = check_returncode(view)
    /\ UNCHANGED <<imageVars, assigned, parse, event>>

\* line 162
ParseSkyimages(outcome) ==
    /\ view.pc = "parse"
    /\ view' = parse_skyimages(view, outcome)
    /\ UNCHANGED <<imageVars, assigned, parse, event>>

ViewNext ==
    \/ \E a \in ViewArgs, exists \in BOOLEAN : ViewConstruct(a, exists)
    \/ \E outcome \in ToolOutcomes : Batfftimage(outcome)
    \/ CheckReturncode
    \/ \E outcome \in FromFileOutcomes : ParseSkyimages(outcome)

SpecView == ViewStart /\ [][ViewNext]_vars

\* the invocations that raised or returned a returncode other than 0
FailedInvocations ==
    {i \in DOMAIN view.calls : view.calls[i].outcome # "returncode 0"}

\* an invocation has failed and the constructor has not yet left
FailurePending ==
    FailedInvocations # {} /\ view.pc # "raised"

\* after a failed invocation: it is the last one, the sky image file has
\* not been handed to from_file, and the constructor has left with a
\* RuntimeError or stands before the test of the returncode
FailureIsFatal ==
    \A i \in FailedInvocations :
        /\ i = Len(view.calls)
        /\ view.parsed = 0
        /\ view.pc \in {"check sky image", "check pcode", "raised"}
        /\ view.pc = "raised" => view.exc = "RuntimeError"
        /\ view.calls[i].outcome = "raises" => view.pc = "raised"

\* C23: when an invocation of batfftimage raises or returns a returncode
\* other than 0, for the sky image or for the partial coding map, the
\* construction fails at once with a RuntimeError: the step that follows
\* the failed invocation raises it, the tool is not invoked again, no
\* invocation for the partial coding map follows a failed one for the sky
\* image, and the sky image file is not parsed afterwards.
C23_ToolFailureIsFatal ==
    /\ [](FailureIsFatal)
    /\ [][FailurePending => (view'.pc = "raised" /\ view'.exc = "RuntimeError"
                             /\ view'.calls = view.calls /\ view'.parsed = 0)]_view

\* the sky image was made, the invocation for the partial coding map
\* returned 1, and the constructor raised
C23_Witness ==
    /\ Len(view.calls) = 2
    /\ view.calls[1] = [what |-> "sky image", outcome |-> "returncode 0"]
    /\ view.calls[2] = [what |-> "pcode", outcome |-> "returncode 1"]
    /\ view.pc = "raised" /\ view.exc = "RuntimeError" /\ view.line = 150
    /\ view.parsed = 0

\* the invocation for the sky image raised
C23_SkyImageRaised ==
    /\ Len(view.calls) = 1
    /\ view.calls[1] = [what |-> "sky image", outcome |-> "raises"]
    /\ view.pc = "raised" /\ view.exc = "RuntimeError" /\ view.line = 181
    /\ view.parsed = 0

\* both invocations returned 0 and the sky image file was handed to
\* from_file
C23_ParsedAfterSuccess ==
    /\ Len(view.calls) = 2 /\ FailedInvocations = {}
    /\ view.parsed = 1

(***************************************************************************)
(* project: the ValueError of line 672.  The class stores image_type as a  *)
(* plain attribute, so a caller can assign to it after the construction;   *)
(* SpecAssign adds that assignment to the operations of Spec, on images    *)
(* of every image_type, flag, number of energy bins and layout.            *)
(***************************************************************************)
\* the images constructed: arrays and HEALPix Histograms of
\* 1..MaxEnergyBins energy bins that hold 1 in the first pixel, for every
\* image_type, with and without the mosaic flag
TypedArgs ==
    {a \in DataArgs :
        \A t \in DOMAIN a.image_data.data :
            t[Len(t) - 1] = 1 => a.image_data.data[t] = 1}

\* the values assigned: an accepted one, and one that is not accepted
AssignedTypes == {"flux", "bogus"}

\* img.image_type = t
AssignImageType(t) ==
    /\ img.kind = "BatSkyImage"
    /\ call.op \notin {"project", "assign"}
    /\ img' = [img EXCEPT !.image_type = t]
    /\ assigned' = t
    /\ call' = [NoCall EXCEPT !.op = "assign", !.self = img]
    /\ ret' = NoRet
    /\ warns' = <<>>
    /\ UNCHANGED <<root, view, parse, event>>

AssignNext ==
    \/ \E a \in TypedArgs : Construct(a)
    \/ \E c \in CoordSystems, n \in NSides : HealpixProjection(c, n)
    \/ \E axis \in KeepChoices(img.axes) : Project(axis)
    \/ \E t \in AssignedTypes : AssignImageType(t)

SpecAssign == Init /\ [][AssignNext]_vars

\* project raised "Cannot do normal sum over energy bins for this type of
\* image"
ProjectCall == call.op = "project"

CannotSum == ProjectCall /\ ~ret.ok /\ ret.branch = "error"

\* C24: project never raises the ValueError of line 672 on an image whose
\* image_type is None or one of flux, pcode, snr, stddev, exposure, whatever
\* is_mosaic_intermediate, the number of energy bins and the axes kept; when
\* it is raised, image_type was assigned a value outside that set after the
\* construction.
C24_CannotSumUnreachable ==
    /\ (ProjectCall /\ call.self.image_type \in ImageTypes) => (ret.ok /\ ~CannotSum)
    /\ CannotSum => (/\ assigned \notin ImageTypes \cup {NotAssigned}
                     /\ call.self.image_type = assigned)
    /\ (assigned = NotAssigned /\ img.kind = "BatSkyImage")
           => img.image_type \in ImageTypes

\* a flux image of two energy bins, projected onto its pixels
C24_Witness ==
    /\ Projected /\ ret.ok
    /\ call.self.image_type = "flux" /\ ~call.self.is_mosaic_intermediate
    /\ EnergyNbins(call.self) = 2
    /\ CollapsesEnergy(call.self, call.axis)
    /\ ret.branch = "sum"

\* image_type assigned "bogus" after the construction: line 672
C24_AssignedWitness ==
    /\ CannotSum /\ ret.exc = "ValueError"
    /\ assigned = "bogus" /\ call.self.image_type = "bogus"
    /\ EnergyNbins(call.self) = 2

(***************************************************************************)
(* healpix_projection: the image_type and the mosaic flag of the result.   *)
(***************************************************************************)
\* healpix_projection returned an image
HealpixReturned == HealpixCall /\ ret.ok /\ img.kind = "BatSkyImage"

\* C25 as claimed: the image that healpix_projection returns has the
\* image_type and the is_mosaic_intermediate flag of the image it was
\* called on, on the reprojection path and on the path of an image that
\* has a HEALPix axis already.
C25_TypeAndFlagCarried ==
    HealpixReturned
    => /\ img.image_type = call.self.image_type
       /\ img.is_mosaic_intermediate = call.self.is_mosaic_intermediate

\* what the code does: the image returned has image_type None and the flag
\* False, on both paths
C25_TypeAndFlagDropped ==
    HealpixReturned
    => /\ img.image_type = "None"
       /\ img.is_mosaic_intermediate = FALSE

\* an snr image reprojected: the result has no image_type
C25_ReprojectionDropsType ==
    /\ HealpixReturned
    /\ ~HasAxis(call.self.axes, "HPX")
    /\ call.self.image_type = "snr"
    /\ img.image_type = "None"

\* a HEALPix mosaic intermediate asked for its own frame and resolution:
\* the copy is no mosaic intermediate
C25_CopyDropsFlag ==
    /\ HealpixReturned
    /\ HasAxis(call.self.axes, "HPX")
    /\ call.self.is_mosaic_intermediate
    /\ ~img.is_mosaic_intermediate

(***************************************************************************)
(* from_file: the energy slice of each image extension.                    *)
(***************************************************************************)
\* the image of the k-th image extension of the file is energy slice k of
\* the contents
SlicesInOrder ==
    \A k \in DOMAIN ImageExtensions :
        LET hdu == call.file.hdus[ImageExtensions[k]]
        IN  /\ k <= img.contents.shape[4]
            /\ \A y \in 1..hdu.NAXIS2, x \in 1..hdu.NAXIS1 :
                   img.contents.data[<<1, y, x, k>>] = hdu.data[<<y, x>>]

\* the assignment of line 592 raised: an image extension was written
\* outside the array, or its shape is not that of the first one
FillFailed == FileRead /\ ~ret.ok /\ ret.line = 592

\* the image extensions come first in the file
ImagesLead ==
    \A k \in DOMAIN ImageExtensions : ImageExtensions[k] = k

\* C26 as claimed: from_file stores the k-th image extension in energy
\* slice k, whatever the order of the image, ebounds and stdgti extensions
\* of the file, and writes no image extension outside the array.
C26_SliceOfExtension ==
    FileRead
    => /\ ~(FillFailed /\ ret.exc = "IndexError")
       /\ ret.ok => SlicesInOrder

\* an energy table before the image extension: the image is written at
\* index 1 of an energy axis of length 1
C26_TableBeforeImage ==
    /\ FileRead
    /\ Len(call.file.hdus) = 2
    /\ Classify(call.file.hdus[1]) = "ebounds" /\ call.file.hdus[1].NAXIS2 = 1
    /\ call.file.hdus[2].EXTNAME = "BAT_IMAGE_1"
    /\ FillFailed /\ ret.exc = "IndexError"

\* what does hold: the slice written is the index of the HDU in the file,
\* so a file is read only if its image extensions come first, and then
\* extension k is slice k; an image extension behind a table is written
\* outside the array
C26_SliceOfHduIndex ==
    /\ (FileRead /\ ret.ok) => (ImagesLead /\ SlicesInOrder)
    /\ (FillFailed /\ ret.exc = "IndexError") => ~ImagesLead

\* two image extensions that differ, read into the slices 1 and 2
C26_ImagesFirstRead ==
    /\ FileRead /\ ret.ok
    /\ Len(ImageExtensions) = 2 /\ ImagesLead
    /\ SlicesInOrder
    /\ img.contents.data[<<1, 1, 1, 1>>] # img.contents.data[<<1, 1, 1, 2>>]

(***************************************************************************)
(* The bookkeeping dictionaries and the axes.                              *)
(***************************************************************************)
\* the lower and the upper edges of the bins of an axis
LowerEdges(ax) == [i \in 1..Nbins(ax) |-> ax.edges[i]]
UpperEdges(ax) == [i \in 1..Nbins(ax) |-> ax.edges[i + 1]]

\* tbins and ebins of self are the bins of its TIME and ENERGY axes: the
\* values, read in order, are the edges
BookkeepingAgrees(self) ==
    LET tax == self.axes[AxisIndex(self.axes, "TIME")]
        eax == self.axes[AxisIndex(self.axes, "ENERGY")]
    IN  /\ Flat(self.tbins.START) = LowerEdges(tax)
        /\ Flat(self.tbins.STOP) = UpperEdges(tax)
        /\ Flat(self.ebins.E_MIN) = LowerEdges(eax)
        /\ Flat(self.ebins.E_MAX) = UpperEdges(eax)
        /\ self.ebins.INDEX = [i \in 1..Nbins(eax) |-> i]

\* C27 as claimed: after any successful construction tbins and ebins agree
\* with the axes of the image: TIME_START and TIME_STOP are the lower and
\* upper edges of the TIME bins, E_MIN and E_MAX those of the ENERGY bins,
\* INDEX is 1..N for N ENERGY bins; with bounds given as emin/emax, as
\* edges, or beside a Histogram.
C27_BookkeepingAgrees ==
    (Constructed /\ ret.ok) => BookkeepingAgrees(img)

\* a Histogram of two time bins constructed with timebins of one bin
C27_HistogramOfTwoTimeBins ==
    /\ Constructed /\ ret.ok
    /\ call.args.image_data.kind = "hist"
    /\ Nbins(img.axes[AxisIndex(img.axes, "TIME")]) = 2
    /\ Size(img.tbins.START) = 1

\* the construction was given an array and, if emin and emax at all, as
\* many emin as emax, each emax being the emin that follows
ArrayWithPairedBounds(a) ==
    /\ a.image_data.kind = "array"
    /\ \/ IsNone(a.emin) /\ IsNone(a.emax)
       \/ /\ ~IsNone(a.emin) /\ ~IsNone(a.emax)
          /\ Size(a.emin) = Size(a.emax)
          /\ \A k \in 1..(Size(a.emin) - 1) : Flat(a.emin)[k + 1] = Flat(a.emax)[k]

\* what does hold: tbins and ebins agree with the axes when the image is
\* constructed from an array with energybins alone or with emin and emax
\* that pair up and touch, and when it is read from a file
C27_ArraysAgree ==
    /\ (Constructed /\ ret.ok /\ ArrayWithPairedBounds(call.args))
       => BookkeepingAgrees(img)
    /\ (FileRead /\ ret.ok) => BookkeepingAgrees(img)

\* an array of two energy bins constructed with energybins
C27_EdgesWitness ==
    /\ Constructed /\ ret.ok
    /\ call.args.image_data.kind = "array"
    /\ call.args.energybins = Arr(<<1, 2, 3>>)
    /\ BookkeepingAgrees(img)
    /\ img.ebins.INDEX = <<1, 2>>

(***************************************************************************)
(* The HISTORY records: the loop, record by record.                        *)
(***************************************************************************)
\* the loop is entered with the HISTORY records of a header
ReadHistory(parser, records) ==
    /\ parse.parser = "none"
    /\ parse' = [NoParse EXCEPT !.parser = parser, !.records = records]
    /\ UNCHANGED <<imageVars, view, assigned, event>>

\* one turn of the loop; an exception ends it
NextRecord ==
    /\ parse.parser # "none"
    /\ parse.exc = ""
    /\ parse.pos <= Len(parse.records)
    /\ parse' = ParseRecord(parse)
    /\ UNCHANGED <<imageVars, view, assigned, event>>

HistoryNext ==
    \/ /\ parse.parser = "none"
       /\ \E parser \in Parsers, records \in RecordLists(MaxRecords) :
              ReadHistory(parser, records)
    \/ NextRecord

SpecHistory == ViewStart /\ [][HistoryNext]_vars

\* the records that hold the name of the task, the first of them (the
\* START line) and the next (the END line); 0 when there is none
TaskRecords == {i \in DOMAIN parse.records : HasTaskname(parse.records[i])}

StartLine ==
    IF TaskRecords = {} THEN 0
    ELSE CHOOSE i \in TaskRecords : \A j \in TaskRecords : i <= j

EndLine ==
    IF TaskRecords \ {StartLine} = {} THEN 0
    ELSE CHOOSE i \in TaskRecords \ {StartLine} :
             \A j \in TaskRecords \ {StartLine} : i <= j

\* record i stands after the START line and before the END line, if there
\* is one
StrictlyBetween(i) ==
    /\ StartLine # 0 /\ StartLine < i
    /\ EndLine # 0 => i < EndLine

\* C28 as claimed: only the records strictly between the first record that
\* holds the name of the task and the next one that does write the
\* dictionary; the START record, the END record, empty records and the
\* records after the END record leave it unchanged.
C28_Original ==
    \A i \in parse.changed :
        StrictlyBetween(i) /\ ~IsEmpty(parse.records[i])

\* C28: the dictionary is written only at records that are not empty, do
\* not hold the word START, and stand strictly between the first record
\* that holds the name of the task and the next one that does, or are that
\* first record itself: the first record with the name of the task is
\* left alone because it holds the word START, and one that does not is
\* read as a parameter.  The END record and all records after it leave the
\* dictionary unchanged.
C28_RecordsThatWrite ==
    \A i \in parse.changed :
        /\ ~IsEmpty(parse.records[i]) /\ ~HasSTART(parse.records[i])
        /\ StrictlyBetween(i) \/ i = StartLine
        /\ EndLine # 0 => i < EndLine

\* START, P1 infile = a, END, P2 outfile = b, read to the end: infile is
\* written, outfile is not
C28_Witness ==
    /\ parse.records = <<StartRecord, <<"P1", "infile", "=", "a">>, EndRecord,
                         <<"P2", "outfile", "=", "b">>>>
    /\ parse.pos = 5 /\ parse.exc = ""
    /\ parse.changed = {2}
    /\ parse.dict["infile"] = <<"a">> /\ parse.dict["outfile"] = <<"NONE">>

\* the first record with the name of the task is a parameter record: it is
\* read
C28_FirstRecordRead ==
    /\ parse.records = <<<<"P2", "outfile", "=", "taskname.out">>>>
    /\ parse.pos = 2
    /\ parse.changed = {1} /\ StartLine = 1
    /\ parse.dict["outfile"] = <<"taskname.out">>

(***************************************************************************)
(* The HISTORY records: values that run over several records.              *)
(***************************************************************************)
\* a record with "=": P<n> <parameter> = <value>
IsParam(rec) == \E k \in DOMAIN rec : rec[k] = "="

\* c, c, ..., c: the fragments of n continuation records
Fragments(n) == [k \in 1..n |-> ContinuationRecord[2]]

\* the record after the START line is a parameter record, the n records
\* after it are continuation records, no END line stands before them, and
\* the loop has just left the last of them
ContinuedValue(n) ==
    LET j == StartLine + 1
    IN  /\ StartLine # 0 /\ HasSTART(parse.records[StartLine])
        /\ j + n <= Len(parse.records)
        /\ IsParam(parse.records[j])
        /\ \A k \in 1..n : parse.records[j + k] = ContinuationRecord
        /\ StrictlyBetween(j + n)
        /\ parse.pos = j + n + 1

\* the dictionary holds the value of the parameter record after the START
\* line followed by n fragments, and the defaults otherwise
ValuePutTogether(n) ==
    LET rec == parse.records[StartLine + 1]
    IN  parse.dict = Store(default_params, rec[2], <<rec[Len(rec)]>> \o Fragments(n))

\* C29 as claimed: when a value is split over a parameter record and one
\* or more continuation records, the value recovered is the fragment of
\* the parameter record followed by those of the continuation records, in
\* order, and no other key is created or changed, in the light-curve parser
\* and in the sky-image parser.
C29_ContinuationsConcatenated ==
    \A n \in 1..MaxRecords :
        ContinuedValue(n) => (parse.exc = "" /\ ValuePutTogether(n))

\* the light-curve parser at the second continuation record: old_parameter
\* is the fragment of the first one, which is no key
C29_SecondContinuationKeyError ==
    /\ parse.parser = "lightcurve"
    /\ parse.records = <<StartRecord, <<"P1", "infile", "=", "a">>,
                         ContinuationRecord, ContinuationRecord>>
    /\ parse.pos = 5
    /\ parse.exc = "KeyError"
    /\ parse.old_parameter = "c"
    /\ parse.dict["infile"] = <<"a", "c">>

\* what does hold: the sky-image loop puts any number of fragments
\* together; the light-curve loop does so for one continuation record and
\* raises a KeyError at the second
C29_OneContinuation ==
    \A n \in 1..MaxRecords :
        ContinuedValue(n)
        => IF parse.parser = "skyimage" \/ n = 1
           THEN parse.exc = "" /\ ValuePutTogether(n)
           ELSE parse.exc = "KeyError" /\ n = 2 /\ ValuePutTogether(1)

\* the sky-image loop after two continuation records
C29_SkyImageTwoContinuations ==
    /\ parse.parser = "skyimage"
    /\ ContinuedValue(2)
    /\ parse.exc = ""
    /\ parse.dict["infile"] = <<"a", "c", "c">>
    /\ parse.dict["outfile"] = <<"NONE">>

(***************************************************************************)
(* BatEvent: constructions one after another on the same disk.             *)
(***************************************************************************)
\* BatEvent(obs_id, ra=ra, dec=ra, recalc=recalc), lines 37-84 and 290-292
EventConstruct(recalc, ra) ==
    /\ event.pc \in {"idle", "done"}
    /\ event' = BatEventInit(event, recalc, ra)
    /\ UNCHANGED <<imageVars, view, assigned, parse>>

\* lines 86-103
EventFindFiles(listing) ==
    /\ event.pc = "directories"
    /\ event' = FindFiles(event, listing)
    /\ UNCHANGED <<imageVars, view, assigned, parse>>

\* lines 107-156
EventCheckFiles ==
    /\ event.pc = "files"
    /\ event' = CheckFiles(event)
    /\ UNCHANGED <<imageVars, view, assigned, parse>>

\* lines 169-222
EventCoordinates(same_position) ==
    /\ event.pc = "coordinates"
    /\ event' = Coordinates(event, same_position)
    /\ UNCHANGED <<imageVars, view, assigned, parse>>

\* lines 231-235
EventCalibrate(calibrated, outcome) ==
    /\ event.pc = "calibrate"
    /\ event' = Calibrate(event, calibrated, outcome)
    /\ UNCHANGED <<imageVars, view, assigned, parse>>

\* lines 241-283
EventCopy ==
    /\ event.pc = "copy"
    /\ event' = CopyAndFinish(event)
    /\ UNCHANGED <<imageVars, view, assigned, parse>>

EventNext ==
    \/ /\ event.pc \in {"idle", "done"}
       /\ \E recalc \in BOOLEAN, ra \in RaChoices : EventConstruct(recalc, ra)
    \/ /\ event.pc = "directories"
       /\ \E listing \in Listings : EventFindFiles(listing)
    \/ EventCheckFiles
    \/ /\ event.pc = "coordinates"
       /\ \E same_position \in BOOLEAN : EventCoordinates(same_position)
    \/ /\ event.pc = "calibrate"
       /\ \E calibrated \in BOOLEAN, outcome \in ConvertOutcomes :
              EventCalibrate(calibrated, outcome)
    \/ EventCopy

SpecEvent == ViewStart /\ [][EventNext]_vars

MarkerExists == \E dir \in {"obs_dir", "eventresult"} : Marker(dir) \in event.fs
PickleWritten == Pickle("eventresult") \in event.fs

\* the construction has ended, and it ended in the validation (lines
\* 86-235) or in a copy of lines 261-268
RaisedBeforeMarker ==
    /\ event.pc = "done"
    /\ event.exc # ""
    /\ event.line # 310

\* the construction has ended and had passed the validation of lines 86-235
PassedValidation ==
    /\ event.pc = "done"
    /\ ~event.loaded
    /\ \/ event.exc = ""
       \/ event.line = 310
       \/ \E k \in DOMAIN CopyLines : event.line = CopyLines[k]

C30_CopyOfListRaises ==
    /\ PassedValidation
    /\ event.exc = "TypeError"
    /\ event.line = 267
    /\ "tdrss_files" \in event.lists
    /\ event.found.attitude = 1 /\ event.found.enable = 1
    /\ event.found.quality = 1 /\ event.found.raytracing = 1
    /\ event.fs = {ResultDir}

\* what does hold: no construction gets past the copies of lines 261-268,
\* so none creates the marker, writes batevent.pickle or loads a saved state
C30_NoConstructionFinishes ==
    /\ ~MarkerExists /\ ~PickleWritten
    /\ ~event.touched /\ ~event.saved /\ ~event.loaded
    /\ PassedValidation => (event.exc = "TypeError" /\ event.line = 267)

\* a second construction, with recalc False, on the disk a failed one left:
\* it looks for the two files in the result directory and starts over
C30_SecondConstructionStartsOver ==
    /\ event.pc = "directories"
    /\ ~event.recalc
    /\ event.load_dir = "eventresult"
    /\ ResultDir \in event.fs

====
